---- MODULE Spec2Model ----
(***************************************************************************)
(* Print completion bridge of fixPrinter.                                  *)
(*                                                                         *)
(* Native side: printer.Service (src/internal/printer/printer.go): Print   *)
(* registers a request id, triggers the page script through WindowExecJS   *)
(* and waits for NotifyResult or for the result timeout.                   *)
(* Page side: executePrint (src/unnamed/part_000): load the report frame,  *)
(* poll for the FR object, call FR.doURLPrint and report the outcome       *)
(* through NotifyPrintResult.                                              *)
(***************************************************************************)
EXTENDS Integers, Sequences, FiniteSets, TLC

(* ------------------------------ bounds -------------------------------- *)

\* number of Print calls (goroutines calling Service.Print)
MaxCalls == 2
\* number of executePrint invocations followed on the page
MaxExecs == 2

Calls == 1..MaxCalls
Execs == 1..MaxExecs

(* --------------------------- program values --------------------------- *)

\* the empty string as a request id; uuid.NewString() yields 1, 2, ...
EmptyID == 0
\* an id uuid.NewString() never returned
BogusID == MaxCalls + 1

\* Config.ReadyInterval in milliseconds (defaultReadyInterval)
ReadyIntervalMS == 400

NoErr == "<nil>"
ErrCtx == "runtime context is not ready yet"
ErrPrintURL == "printUrl is required"
ErrPrinterName == "printerName is required"
ErrReportlets == "at least one reportlet is required"
ErrUnknown == "unknown printing error"
ErrTimeout == "print workflow timed out after 1m0s"

\* messages of the errors the page script catches
MsgNoEntryURL == "entryUrl not configured"
MsgLoadTimeout == "FineReport page load timed out"
MsgWindowGone == "FineReport window unavailable"
MsgFRTimeout == "waiting for FineReport object timed out"
\* messages of the exceptions FR.doURLPrint may throw ("" : no message)
ThrownMessages == {"FR.doURLPrint failed", ""}

\* Math.round(performance.now() - started): zero or positive
Durations == {0, 5}

defaultEntryURL == "defaultEntryURL"
defaultPrintURL == "defaultPrintURL"

\* PrintParams as far as Print looks at it
ParamsSet ==
    [PrintURL : {"", "printUrl"}, PrinterName : {"", "A5"},
     Reportlets : 0..1, EntryURL : {"", "entryUrl"}]

\* the zero PrintResult (also stands for the fields of a nil *PrintResult)
ZeroResult == [RequestID |-> EmptyID, Success |-> FALSE, Error |-> "", DurationMS |-> 0]

VARIABLES
    ctx,        \* Service.ctx # nil
    waiters,    \* Service.waiters: request id -> channel (the call that made it)
    nextID,     \* the next value of uuid.NewString()
    pc,         \* position of each Print call
    requestID,  \* requestID of each Print call
    payload,    \* payload of each Print call, until it is handed to the page
    chan,       \* ch of each Print call: buffered channel of capacity 1
    ret,        \* what each Print call returned
    jsCalls,    \* request ids of the scripts handed to runtime.WindowExecJS
    autoPrint,  \* window.__xAutoPrint is installed
    note,       \* the NotifyResult invocations: slot c belongs to the page run of call c
    exec,       \* the executePrint invocations followed step by step (PageSpec)
    offset,     \* time.Now().Zone(): seconds east of UTC of the host
    window,     \* StartTime and UntilTime of each printer, as Set-Printer left them
    driver,     \* what the last printer binding call of the UI returned
    procRunning,        \* FinePrint.exe is in the task list
    queue,              \* the queue of the default printer holds jobs
    finePrintCancel,    \* App.finePrintCancel: 0 for nil, else the watcher it cancels
    finePrintActive,    \* App.finePrintActive
    cleanupCompleted,   \* App.cleanupCompleted
    allowExit,          \* App.allowExit
    autoPrintTriggered, \* App.autoPrintTriggered
    quit,               \* runtime.Quit was called
    launches,           \* number of fix-printer.exe processes started
    watch,              \* the watchFinePrintProcess goroutines started so far
    spool,      \* ids of the jobs in the queue of the default printer, oldest first
    jobsCall,   \* what the last print-job binding call of the UI did and returned
    rm,         \* the removeAllPrinterJobs call that is under way
    frameSrc,   \* iframe.src of dom.previewFrame: the call whose target it was given, 0 at first
    frameDoc,   \* the document the iframe shows: the call whose target was loaded, 0 at first
    listeners,  \* the loadReportFrame calls whose onLoad is attached to the iframe
    timers,     \* the loadReportFrame calls whose timer is pending
    load,       \* the loadReportFrame calls: closure and promise of each
    isWindowVisible,    \* App.isWindowVisible
    closed,             \* OnBeforeClose returned false: the window was closed
    down,               \* shutdown was called
    token,      \* Config.PushPlusToken
    tasks,      \* Config.Tasks
    file,       \* the task list in monitor.json
    entries,    \* the jobs of Scheduler.cron: name and timeoutMs of each
    sched,      \* the Scheduler call that holds Scheduler.mu, or the last one
    run,        \* the executeTask invocations started so far
    timing      \* a Print call and its page run followed on the clock, in milliseconds

\* the print bridge
printVars == <<ctx, waiters, nextID, pc, requestID, payload, chan, ret, jsCalls, autoPrint, note, exec>>

\* the printer driver and the FinePrint watchdog of App
appVars == <<offset, window, driver, procRunning, queue, finePrintCancel, finePrintActive,
             cleanupCompleted, allowExit, autoPrintTriggered, quit, launches, watch>>

\* the print queue as GetPrinterJobs and RemovePrintJob see it
jobVars == <<spool, jobsCall, rm>>

\* the preview frame of the page and the loadReportFrame calls
frameVars == <<frameSrc, frameDoc, listeners, timers, load>>

\* the main window and the end of the application
closeVars == <<isWindowVisible, closed, down>>

\* the API monitor
monVars == <<token, tasks, file, entries, sched, run>>

\* the clock of a print workflow
timeVars == <<timing>>

otherVars == <<closeVars, monVars, timeVars>>

\* the parts of the application that are followed apart from one another
restVars == <<jobVars, frameVars, otherVars>>

vars == <<printVars, appVars, restVars>>

(* ------------------------- printer.Service ---------------------------- *)

\* validate without its check of the reportlets
validateNoReportlets(p) ==
    IF p.PrintURL = "" THEN ErrPrintURL
    ELSE IF p.PrinterName = "" THEN ErrPrinterName
    ELSE NoErr

\* PrintParams.validate: the error, NoErr for nil
validate(p) ==
    IF p.PrintURL = "" THEN ErrPrintURL
    ELSE IF p.PrinterName = "" THEN ErrPrinterName
    ELSE IF p.Reportlets = 0 THEN ErrReportlets
    ELSE NoErr

\* preparePayload that ignores the entry URL of the call
preparePayloadDefaults(id, p) ==
    [requestId |-> id,
     entryUrl |-> defaultEntryURL,
     printUrl |-> IF p.PrintURL = "" THEN defaultPrintURL ELSE p.PrintURL]

\* Service.preparePayload, with cfg.EntryURL and cfg.PrintURL at their defaults
preparePayload(id, p) ==
    [requestId |-> id,
     entryUrl |-> IF p.EntryURL = "" THEN defaultEntryURL ELSE p.EntryURL,
     printUrl |-> IF p.PrintURL = "" THEN defaultPrintURL ELSE p.PrintURL]

NoPayload == [requestId |-> EmptyID, entryUrl |-> "", printUrl |-> ""]

\* Service.track: s.waiters[key] = ch
track(w, key, ch) ==
    [k \in DOMAIN w \cup {key} |-> IF k = key THEN ch ELSE w[k]]

\* untrack that deletes nothing
untrackNone(w, key) == w

\* untrack that clears the registry
untrackAll(w, key) == <<>>

\* Service.untrack: delete(s.waiters, key)
untrack(w, key) ==
    [k \in DOMAIN w \ {key} |-> w[k]]

NotReturned == [returned |-> FALSE, hasResult |-> FALSE, result |-> ZeroResult, err |-> NoErr]
Return(res, e) == [returned |-> TRUE, hasResult |-> TRUE, result |-> res, err |-> e]
ReturnNil(e) == [returned |-> TRUE, hasResult |-> FALSE, result |-> ZeroResult, err |-> e]

\* a NotifyResult invocation that has not started, and one that is over
NoNote == [pc |-> "none", result |-> ZeroResult, ch |-> 0]
NoteDone == [pc |-> "done", result |-> ZeroResult, ch |-> 0]

\* SetContext: the application's startup hands over the runtime context
SetContext ==
    /\ ~ctx
    /\ ctx' = TRUE
    /\ UNCHANGED <<waiters, nextID, pc, requestID, payload, chan, ret, jsCalls, autoPrint, note, exec, appVars, restVars>>

\* bootstrap of the page: window.__xAutoPrint = { start: executePrint }
Bootstrap ==
    /\ ~autoPrint
    /\ autoPrint' = TRUE
    /\ UNCHANGED <<ctx, waiters, nextID, pc, requestID, payload, chan, ret, jsCalls, note, exec, appVars, restVars>>

\* the Print calls are taken in the order of their numbers
Turn(c) ==
    /\ pc[c] = "idle"
    /\ \A b \in Calls : b < c => pc[b] # "idle"

\* Print, lines 152-157: the context check and the validation fail
PrintReject(c, p) ==
    /\ Turn(c)
    /\ ~ctx \/ validate(p) # NoErr
    /\ pc' = [pc EXCEPT ![c] = "done"]
    /\ ret' = [ret EXCEPT ![c] = ReturnNil(IF ~ctx THEN ErrCtx ELSE validate(p))]
    /\ UNCHANGED <<ctx, waiters, nextID, requestID, payload, chan, jsCalls, autoPrint, note, exec, appVars, restVars>>

\* Print that skips s.track and goes on to trigger the script
PrintBeginUntracked(c, p) ==
    /\ pc[c] = "idle"
    /\ \A b \in Calls : b < c => pc[b] # "idle"
    /\ ctx /\ p.PrintURL # "" /\ p.PrinterName # "" /\ p.Reportlets # 0
    /\ pc' = [pc EXCEPT ![c] = "exec"]
    /\ requestID' = [requestID EXCEPT ![c] = nextID]
    /\ nextID' = nextID + 1
    /\ payload' = [payload EXCEPT ![c] = [requestId |-> nextID, entryUrl |-> p.EntryURL, printUrl |-> p.PrintURL]]
    /\ UNCHANGED <<ctx, waiters, chan, ret, jsCalls, autoPrint, note, exec, appVars, restVars>>

\* Print whose request id is not fresh
PrintBeginSameID(c, p) ==
    /\ pc[c] = "idle"
    /\ \A b \in Calls : b < c => pc[b] # "idle"
    /\ ctx /\ p.PrintURL # "" /\ p.PrinterName # "" /\ p.Reportlets # 0
    /\ pc' = [pc EXCEPT ![c] = "track"]
    /\ requestID' = [requestID EXCEPT ![c] = 1]
    /\ nextID' = nextID + 1
    /\ payload' = [payload EXCEPT ![c] =
                     [requestId |-> 1,
                      entryUrl |-> IF p.EntryURL = "" THEN defaultEntryURL ELSE p.EntryURL,
                      printUrl |-> p.PrintURL]]
    /\ UNCHANGED <<ctx, waiters, chan, ret, jsCalls, autoPrint, note, exec, appVars, restVars>>

\* Print, lines 152-165: the checks pass; request id, payload, channel
PrintBegin(c, p) ==
    /\ Turn(c)
    /\ ctx /\ validate(p) = NoErr
    /\ pc' = [pc EXCEPT ![c] = "track"]
    /\ requestID' = [requestID EXCEPT ![c] = nextID]
    /\ nextID' = nextID + 1
    /\ payload' = [payload EXCEPT ![c] = preparePayload(nextID, p)]
    /\ UNCHANGED <<ctx, waiters, chan, ret, jsCalls, autoPrint, note, exec, appVars, restVars>>

\* Print, line 166: s.track(requestID, ch)
PrintTrack(c) ==
    /\ pc[c] = "track"
    /\ waiters' = track(waiters, requestID[c], c)
    /\ pc' = [pc EXCEPT ![c] = "exec"]
    /\ UNCHANGED <<ctx, nextID, requestID, payload, chan, ret, jsCalls, autoPrint, note, exec, appVars, restVars>>

\* Print, lines 168-169: "window.__xAutoPrint && window.__xAutoPrint.start(payload);"
\* starts executePrint(payload) on the page when the entry point is installed
PrintExecJS(c) ==
    /\ pc[c] = "exec"
    /\ jsCalls' = jsCalls \cup {payload[c].requestId}
    /\ note' = IF autoPrint THEN [note EXCEPT ![c].pc = "running"] ELSE note
    /\ payload' = [payload EXCEPT ![c] = NoPayload]
    /\ pc' = [pc EXCEPT ![c] = "wait"]
    /\ UNCHANGED <<ctx, waiters, nextID, requestID, chan, ret, autoPrint, exec, appVars, restVars>>

\* Print without the default of an empty error
WithErrorRaw(result) == result

\* Print, lines 176-178: the error of a failed result defaults
WithError(result) ==
    [result EXCEPT !.Error = IF result.Error = "" THEN ErrUnknown ELSE result.Error]

\* Print that reports every received result as a failure
PrintReceiveFailing(c) ==
    /\ pc[c] = "wait"
    /\ chan[c] # <<>>
    /\ ret' = [ret EXCEPT ![c] =
                 [returned |-> TRUE, hasResult |-> TRUE, result |-> Head(chan[c]), err |-> ErrUnknown]]
    /\ chan' = [chan EXCEPT ![c] = Tail(chan[c])]
    /\ pc' = [pc EXCEPT ![c] = "done"]
    /\ UNCHANGED <<ctx, waiters, nextID, requestID, payload, jsCalls, autoPrint, note, exec, appVars, restVars>>

\* Print, lines 172-179: a result arrives on ch
PrintReceive(c) ==
    /\ pc[c] = "wait"
    /\ chan[c] # <<>>
    /\ LET result == Head(chan[c])
       IN  ret' = [ret EXCEPT ![c] = IF result.Success THEN Return(result, NoErr)
                                     ELSE Return(WithError(result), WithError(result).Error)]
    /\ chan' = [chan EXCEPT ![c] = Tail(chan[c])]
    /\ pc' = [pc EXCEPT ![c] = "done"]
    /\ UNCHANGED <<ctx, waiters, nextID, requestID, payload, jsCalls, autoPrint, note, exec, appVars, restVars>>

\* a select without its timeout case
PrintTimeoutNever(c) ==
    /\ pc[c] = "wait"
    /\ FALSE
    /\ UNCHANGED vars

\* Print, line 180: time.After(s.cfg.ResultTimeout) fires while ch is empty.
\* The timer is created when the select is entered, and the goroutine parked
\* in the select is woken by the first of the two events.
PrintTimeout(c) ==
    /\ pc[c] = "wait"
    /\ chan[c] = <<>>
    /\ pc' = [pc EXCEPT ![c] = "untrack"]
    /\ UNCHANGED <<ctx, waiters, nextID, requestID, payload, chan, ret, jsCalls, autoPrint, note, exec, appVars, restVars>>

\* the timeout path without s.untrack
PrintUntrackSkipped(c) ==
    /\ pc[c] = "untrack"
    /\ ret' = [ret EXCEPT ![c] = [returned |-> TRUE, hasResult |-> FALSE, result |-> ZeroResult, err |-> ErrTimeout]]
    /\ pc' = [pc EXCEPT ![c] = "done"]
    /\ UNCHANGED <<ctx, waiters, nextID, requestID, payload, chan, jsCalls, autoPrint, note, exec, appVars, restVars>>

\* the timeout path returning no error
PrintUntrackNoError(c) ==
    /\ pc[c] = "untrack"
    /\ waiters' = [k \in DOMAIN waiters \ {requestID[c]} |-> waiters[k]]
    /\ ret' = [ret EXCEPT ![c] = [returned |-> TRUE, hasResult |-> FALSE, result |-> ZeroResult, err |-> NoErr]]
    /\ pc' = [pc EXCEPT ![c] = "done"]
    /\ UNCHANGED <<ctx, nextID, requestID, payload, chan, jsCalls, autoPrint, note, exec, appVars, restVars>>

\* Print, lines 181-182: s.untrack(requestID) and the timeout error
PrintUntrack(c) ==
    /\ pc[c] = "untrack"
    /\ waiters' = untrack(waiters, requestID[c])
    /\ ret' = [ret EXCEPT ![c] = ReturnNil(ErrTimeout)]
    /\ pc' = [pc EXCEPT ![c] = "done"]
    /\ UNCHANGED <<ctx, nextID, requestID, payload, chan, jsCalls, autoPrint, note, exec, appVars, restVars>>

(* ----------------------- Service.NotifyResult -------------------------- *)

\* NotifyResult, lines 191-193
Normalise(result) ==
    IF result.DurationMS = 0 THEN [result EXCEPT !.DurationMS = ReadyIntervalMS] ELSE result

\* the locked section without delete(s.waiters, result.RequestID)
LookupKeep(n, result) ==
    LET ok == result.RequestID # EmptyID /\ result.RequestID \in DOMAIN waiters
    IN  /\ waiters' = waiters
        /\ note' = [note EXCEPT ![n] =
                      IF ok THEN [pc |-> "send", result |-> result, ch |-> waiters[result.RequestID]]
                            ELSE [pc |-> "done", result |-> ZeroResult, ch |-> 0]]

\* NotifyResult, lines 188-200: the early return and the section under s.mu
Lookup(n, result) ==
    LET ok == result.RequestID # EmptyID /\ result.RequestID \in DOMAIN waiters
    IN  /\ waiters' = IF ok THEN untrack(waiters, result.RequestID) ELSE waiters
        /\ note' = [note EXCEPT ![n] =
                      IF ok THEN [pc |-> "send", result |-> Normalise(result),
                                  ch |-> waiters[result.RequestID]]
                            ELSE NoteDone]

\* the results executePrint reports for a payload: success, or a failure with
\* the message of the caught error (an error may carry an empty message);
\* durationMs is zero or positive
PageResults(id) ==
    {[RequestID |-> id, Success |-> TRUE, Error |-> "", DurationMS |-> d] : d \in Durations}
    \cup {[RequestID |-> id, Success |-> FALSE, Error |-> MsgLoadTimeout, DurationMS |-> 5],
          [RequestID |-> id, Success |-> FALSE, Error |-> "", DurationMS |-> 0]}

\* the results of the NotifyPrintResult calls made by other scripts
EnvResults(id) ==
    {r \in PageResults(id) : r.DurationMS = 0}

\* the page run of call c reaches its finally block and calls
\* NotifyPrintResult(result), which is App.NotifyPrintResult -> NotifyResult
NotifyResult(c, result) ==
    /\ note[c].pc = "running"
    /\ Lookup(c, result)
    /\ UNCHANGED <<ctx, nextID, pc, requestID, payload, chan, ret, jsCalls, autoPrint, exec, appVars, restVars>>

\* the slot of the NotifyPrintResult calls made by something other than the
\* page run of a Print call (the binding is open to any script of the page)
EnvNote == MaxCalls + 1

EnvNotifyResult(result) ==
    /\ note[EnvNote].pc = "none"
    /\ Lookup(EnvNote, result)
    /\ UNCHANGED <<ctx, nextID, pc, requestID, payload, chan, ret, jsCalls, autoPrint, exec, appVars, restVars>>

\* that call has returned; the next one may be made
EnvNotifyReturn ==
    /\ note[EnvNote].pc = "done"
    /\ note' = [note EXCEPT ![EnvNote] = NoNote]
    /\ UNCHANGED <<ctx, waiters, nextID, pc, requestID, payload, chan, ret, jsCalls, autoPrint, exec, appVars, restVars>>

\* a send on a channel made without a buffer: it waits for the receiver
NotifySendUnbuffered(n) ==
    /\ note[n].pc = "send"
    /\ pc[note[n].ch] = "wait" /\ chan[note[n].ch] = <<>>
    /\ chan' = [chan EXCEPT ![note[n].ch] = Append(@, note[n].result)]
    /\ note' = [note EXCEPT ![n] = NoteDone]
    /\ UNCHANGED <<ctx, waiters, nextID, pc, requestID, payload, ret, jsCalls, autoPrint, exec, appVars, restVars>>

\* NotifyResult, lines 202-204: ch <- result
NotifySend(n) ==
    /\ note[n].pc = "send"
    /\ Len(chan[note[n].ch]) < 1
    /\ chan' = [chan EXCEPT ![note[n].ch] = Append(@, note[n].result)]
    /\ note' = [note EXCEPT ![n] = NoteDone]
    /\ UNCHANGED <<ctx, waiters, nextID, pc, requestID, payload, ret, jsCalls, autoPrint, exec, appVars, restVars>>

(* --------------------- the page script, step by step ------------------ *)

\* the request ids of the payloads: the empty one and a generated one
PayloadIDs == {EmptyID, 1}

NoExec ==
    [pc |-> "none", requestId |-> EmptyID, entryUrl |-> "", outcome |-> "",
     result |-> [requestId |-> EmptyID, success |-> FALSE, error |-> "", durationMs |-> 0],
     calls |-> <<>>]

\* window.__xAutoPrint.start(payload): executePrint, lines 304-308
ExecStart(e, id, url) ==
    /\ autoPrint
    /\ exec[e].pc = "none"
    /\ \A b \in Execs : b < e => exec[b].pc # "none"
    /\ exec' = [exec EXCEPT ![e] = [NoExec EXCEPT !.pc = "load", !.requestId = id,
                                                  !.entryUrl = url, !.result.requestId = id]]
    /\ UNCHANGED <<ctx, waiters, nextID, pc, requestID, payload, chan, ret, jsCalls, autoPrint, note, appVars, restVars>>

\* the catch block of executePrint: result.error = error.message
Caught(e, what, msg) ==
    exec' = [exec EXCEPT ![e].pc = "finally", ![e].outcome = what, ![e].result.error = msg]

\* loadReportFrame: rejects at once without an entry URL, else resolves on
\* the load event or rejects when its timer fires
ExecLoadFrame(e) ==
    /\ exec[e].pc = "load"
    /\ IF exec[e].entryUrl = ""
         THEN Caught(e, "noEntryUrl", MsgNoEntryURL)
         ELSE \/ exec' = [exec EXCEPT ![e].pc = "waitFR"]
              \/ Caught(e, "loadTimeout", MsgLoadTimeout)
    /\ UNCHANGED <<ctx, waiters, nextID, pc, requestID, payload, chan, ret, jsCalls, autoPrint, note, appVars, restVars>>

\* waitForFR: the tick of the watcher that settles the promise
ExecWaitForFR(e) ==
    /\ exec[e].pc = "waitFR"
    /\ \/ Caught(e, "windowGone", MsgWindowGone)
       \/ exec' = [exec EXCEPT ![e].pc = "doPrint"]
       \/ Caught(e, "frTimeout", MsgFRTimeout)
    /\ UNCHANGED <<ctx, waiters, nextID, pc, requestID, payload, chan, ret, jsCalls, autoPrint, note, appVars, restVars>>

\* win.FR.doURLPrint(payload); result.success = true. The call may throw an
\* Error, or a value without a message (null), on which the catch block
\* itself throws before it sets result.error.
ExecDoURLPrint(e) ==
    /\ exec[e].pc = "doPrint"
    /\ \/ exec' = [exec EXCEPT ![e].pc = "finally", ![e].outcome = "success",
                               ![e].result.success = TRUE]
       \/ \E msg \in ThrownMessages : Caught(e, "thrown", msg)
       \/ exec' = [exec EXCEPT ![e].pc = "finally", ![e].outcome = "catchThrew"]
    /\ UNCHANGED <<ctx, waiters, nextID, pc, requestID, payload, chan, ret, jsCalls, autoPrint, note, appVars, restVars>>

\* the finally block without the call when the print failed
ExecFinallyOnSuccess(e) ==
    /\ exec[e].pc = "finally"
    /\ \E d \in Durations :
         exec' = [exec EXCEPT ![e].pc = "notifying", ![e].result.durationMs = d,
                              ![e].calls = IF exec[e].result.success
                                             THEN Append(@, [exec[e].result EXCEPT !.durationMs = d])
                                             ELSE @]
    /\ UNCHANGED <<ctx, waiters, nextID, pc, requestID, payload, chan, ret, jsCalls, autoPrint, note, appVars, restVars>>

\* the finally block: result.durationMs, then NotifyPrintResult(result)
ExecFinally(e) ==
    /\ exec[e].pc = "finally"
    /\ \E d \in Durations :
         exec' = [exec EXCEPT ![e].pc = "notifying", ![e].result.durationMs = d,
                              ![e].calls = Append(@, [exec[e].result EXCEPT !.durationMs = d])]
    /\ UNCHANGED <<ctx, waiters, nextID, pc, requestID, payload, chan, ret, jsCalls, autoPrint, note, appVars, restVars>>

\* await NotifyPrintResult(result) settles; a rejection is caught and logged
ExecNotified(e) ==
    /\ exec[e].pc = "notifying"
    /\ exec' = [exec EXCEPT ![e].pc = "done"]
    /\ UNCHANGED <<ctx, waiters, nextID, pc, requestID, payload, chan, ret, jsCalls, autoPrint, note, appVars, restVars>>

PageNext ==
    \/ Bootstrap
    \/ \E e \in Execs, id \in PayloadIDs, url \in {"", "entryUrl"} : ExecStart(e, id, url)
    \/ \E e \in Execs : ExecLoadFrame(e)
    \/ \E e \in Execs : ExecWaitForFR(e)
    \/ \E e \in Execs : ExecDoURLPrint(e)
    \/ \E e \in Execs : ExecFinally(e)
    \/ \E e \in Execs : ExecNotified(e)

(* ------------------------ the printer driver of App -------------------- *)

\* number of watchFinePrintProcess goroutines started
MaxWatchers == 2
Watchers == 1..MaxWatchers

defaultPrinterName == "A5"
Printers == {defaultPrinterName, "HP"}
\* the names the UI passes to the bindings
Names == {"", "  ", " A5", "HP"}

\* strings.TrimSpace
TrimSpace(name) ==
    CASE name = "  " -> ""
      [] name = " A5" -> "A5"
      [] OTHER -> name

MsgNameRequired == "printer name is required"
MsgCommandFailed == "exit status 1"

\* the zones of the hosts the watchdog is followed on: UTC and UTC+8
WatchOffsets == {0, 28800}
\* every zone from UTC-12 to UTC+14, minute by minute
ZoneOffsets == {60 * m : m \in -720..840}

\* Go's / and % on int: the quotient is truncated towards zero
GoDiv(a, b) == IF a >= 0 THEN a \div b ELSE -((-a) \div b)
GoRem(a, b) == a - b * GoDiv(a, b)

Unrestricted == [start |-> 0, until |-> 0]

\* a PausePrinter that leaves the window open for 2 hours
PauseWindowHours(off) ==
    LET offsetMinutes == GoDiv(off, 60)
        start == GoRem(1440 - offsetMinutes, 1440)
    IN  [start |-> start, until |-> start + 120]

\* PausePrinter, lines 748-754: the window handed to Set-Printer
PauseWindow(off) ==
    LET offsetMinutes == GoDiv(off, 60)
        start0 == GoRem(1440 - offsetMinutes, 1440)
        start == IF start0 < 0 THEN start0 + 1440 ELSE start0
        until == GoRem(start + 2, 1440)
    IN  [start |-> start, until |-> until]

\* GetPrinterStatus whose script looks at the start of the window only
StatusOfStartOnly(win) ==
    [StartTime |-> win.start, UntilTime |-> win.until, IsPaused |-> win.start = 0]

\* GetPrinterStatus, lines 802-813: the script run by PowerShell
\* $isPaused = (($printer.StartTime -eq 0) -and ($printer.UntilTime -eq 2))
StatusOf(win) ==
    [StartTime |-> win.start, UntilTime |-> win.until,
     IsPaused |-> win.start = 0 /\ win.until = 2]

NoStatus == [StartTime |-> 0, UntilTime |-> 0, IsPaused |-> FALSE]
NoDriver == [op |-> "", target |-> "", err |-> NoErr, status |-> NoStatus]

\* App.PausePrinter called from the UI
PausePrinter(name) ==
    /\ ctx
    /\ LET target == TrimSpace(name)
       IN  IF target = ""
           THEN /\ driver' = [op |-> "PausePrinter", target |-> target,
                              err |-> MsgNameRequired, status |-> NoStatus]
                /\ UNCHANGED window
           ELSE \E ok \in BOOLEAN :
                /\ window' = IF ok THEN [window EXCEPT ![target] = PauseWindow(offset)]
                                   ELSE window
                /\ driver' = [op |-> "PausePrinter", target |-> target,
                              err |-> IF ok THEN NoErr ELSE MsgCommandFailed,
                              status |-> NoStatus]
    /\ UNCHANGED <<printVars, restVars, offset, procRunning, queue, finePrintCancel, finePrintActive,
                   cleanupCompleted, allowExit, autoPrintTriggered, quit, launches, watch>>

\* App.ResumePrinter called from the UI
ResumePrinter(name) ==
    /\ ctx
    /\ LET target == TrimSpace(name)
       IN  IF target = ""
           THEN /\ driver' = [op |-> "ResumePrinter", target |-> target,
                              err |-> MsgNameRequired, status |-> NoStatus]
                /\ UNCHANGED window
           ELSE \E ok \in BOOLEAN :
                /\ window' = IF ok THEN [window EXCEPT ![target] = Unrestricted]
                                   ELSE window
                /\ driver' = [op |-> "ResumePrinter", target |-> target,
                              err |-> IF ok THEN NoErr ELSE MsgCommandFailed,
                              status |-> NoStatus]
    /\ UNCHANGED <<printVars, restVars, offset, procRunning, queue, finePrintCancel, finePrintActive,
                   cleanupCompleted, allowExit, autoPrintTriggered, quit, launches, watch>>

\* App.GetPrinterStatus called from the UI: a blank name is the default printer
GetPrinterStatus(name) ==
    /\ ctx
    /\ LET target == IF TrimSpace(name) = "" THEN defaultPrinterName ELSE TrimSpace(name)
       IN  \E ok \in BOOLEAN :
             driver' = [op |-> "GetPrinterStatus", target |-> target,
                        err |-> IF ok THEN NoErr ELSE MsgCommandFailed,
                        status |-> IF ok THEN StatusOf(window[target]) ELSE NoStatus]
    /\ UNCHANGED <<printVars, restVars, offset, window, procRunning, queue, finePrintCancel,
                   finePrintActive, cleanupCompleted, allowExit, autoPrintTriggered,
                   quit, launches, watch>>

\* minutes of the day an administrator or another tool gives to a window
WindowMinutes == {0, 2, 480, 1040}

\* the window of the default printer is set from outside the application
EnvWindow(start, until) ==
    /\ window' = [window EXCEPT ![defaultPrinterName] = [start |-> start, until |-> until]]
    /\ UNCHANGED <<printVars, restVars, offset, driver, procRunning, queue, finePrintCancel,
                   finePrintActive, cleanupCompleted, allowExit, autoPrintTriggered,
                   quit, launches, watch>>

DriverNext ==
    \/ SetContext
    \/ \E name \in Names : PausePrinter(name)
    \/ \E name \in Names : ResumePrinter(name)
    \/ \E name \in Names : GetPrinterStatus(name)

\* the driver calls of the UI with a printer whose window is also set from outside
StatusNext ==
    \/ DriverNext
    \/ \E start, until \in WindowMinutes : EnvWindow(start, until)

(* ------------------------ the FinePrint watchdog ----------------------- *)

\* the four flags of the watchdog
Flags ==
    [finePrintActive |-> finePrintActive, autoPrintTriggered |-> autoPrintTriggered,
     cleanupCompleted |-> cleanupCompleted, allowExit |-> allowExit]

InitialFlags ==
    [finePrintActive |-> FALSE, autoPrintTriggered |-> FALSE,
     cleanupCompleted |-> FALSE, allowExit |-> FALSE]

\* a goroutine that has just been started: its position, whether its context
\* is cancelled, and of the tick it is in: the local running, the external
\* commands run so far and whether the tick has assigned a flag of the watchdog
NewWatch ==
    [pc |-> "select", cancelled |-> FALSE, running |-> FALSE, calls |-> <<>>, wrote |-> FALSE]

AppInit ==
    /\ window = [p \in Printers |-> Unrestricted]
    /\ driver = NoDriver
    /\ procRunning = FALSE
    /\ queue = FALSE
    /\ finePrintCancel = 0
    /\ finePrintActive = FALSE
    /\ cleanupCompleted = FALSE
    /\ allowExit = FALSE
    /\ autoPrintTriggered = FALSE
    /\ quit = FALSE
    /\ launches = 0
    /\ watch = <<>>

\* the tick of r has run the command call
Ran(r, call) == [r EXCEPT !.calls = Append(@, call)]
\* the tick of r returns to the select of the loop, its locals are gone
Returns(r) == [NewWatch EXCEPT !.cancelled = r.cancelled]
\* the tick of r goes on to pos
GoesTo(r, pos) == [r EXCEPT !.pc = pos]
\* the tick of r is past the last use of its local running (line 998)
Forgets(r) == [r EXCEPT !.running = FALSE]

\* cancel() of the context of goroutine g: a goroutine parked in the select is
\* woken by ctx.Done(); one in the middle of a tick sees it when it is back
Cancel(wt, g) ==
    IF g = 0 THEN wt
    ELSE [wt EXCEPT ![g] = IF @.pc = "select" /\ ~@.cancelled
                           THEN [@ EXCEPT !.pc = "exited", !.cancelled = TRUE]
                           ELSE [@ EXCEPT !.cancelled = TRUE]]

\* FinePrint.exe starts or ends. (Once runtime.Quit is called the application
\* closes: the environment and the UI are followed no further, the goroutines
\* are, until the process ends.)
EnvProcess ==
    /\ ~quit
    /\ procRunning' = ~procRunning
    /\ UNCHANGED <<printVars, restVars, offset, window, driver, queue, finePrintCancel, finePrintActive,
                   cleanupCompleted, allowExit, autoPrintTriggered, quit, launches, watch>>

\* a job enters the empty queue of the default printer
EnvJob ==
    /\ ~quit
    /\ ~queue
    /\ queue' = TRUE
    /\ UNCHANGED <<printVars, restVars, offset, window, driver, procRunning, finePrintCancel,
                   finePrintActive, cleanupCompleted, allowExit, autoPrintTriggered,
                   quit, launches, watch>>

\* IsFinePrintMonitorRunning, lines 1155-1157
IsFinePrintMonitorRunning == finePrintCancel # 0

\* StartFinePrintMonitor -> startFinePrintMonitor: the next goroutine is started
StartFinePrintMonitor ==
    /\ ctx /\ ~quit
    /\ finePrintCancel = 0
    /\ Len(watch) < MaxWatchers
    /\ watch' = Append(watch, NewWatch)
    /\ finePrintCancel' = Len(watch) + 1
    /\ UNCHANGED <<printVars, restVars, offset, window, driver, procRunning, queue, finePrintActive,
                   cleanupCompleted, allowExit, autoPrintTriggered, quit, launches>>

\* StopFinePrintMonitor, lines 1170-1179
StopFinePrintMonitor ==
    /\ ~quit
    /\ finePrintCancel # 0
    /\ watch' = Cancel(watch, finePrintCancel)
    /\ finePrintCancel' = 0
    /\ finePrintActive' = FALSE
    /\ UNCHANGED <<printVars, restVars, offset, window, driver, procRunning, queue,
                   cleanupCompleted, allowExit, autoPrintTriggered, quit, launches>>

\* watchFinePrintProcess, line 959: ctx.Done() is taken
WatchExit(w) ==
    /\ w \in DOMAIN watch /\ watch[w].pc = "select" /\ watch[w].cancelled
    /\ watch' = [watch EXCEPT ![w].pc = "exited"]
    /\ UNCHANGED <<printVars, restVars, offset, window, driver, procRunning, queue, finePrintCancel,
                   finePrintActive, cleanupCompleted, allowExit, autoPrintTriggered,
                   quit, launches>>

\* a tick that does not look at cleanupCompleted
WatchTickAlways(w) ==
    /\ w \in DOMAIN watch /\ watch[w].pc = "select"
    /\ watch' = [watch EXCEPT ![w] = [@ EXCEPT !.pc = "proc"]]
    /\ UNCHANGED <<printVars, restVars, offset, window, driver, procRunning, queue, finePrintCancel,
                   finePrintActive, cleanupCompleted, allowExit, autoPrintTriggered,
                   quit, launches>>

\* watchFinePrintProcess, line 961, and evaluateFinePrintState, lines 968-970:
\* the ticker fires (after a cancel only a tick that was already due)
WatchTick(w) ==
    /\ w \in DOMAIN watch /\ watch[w].pc = "select"
    /\ watch' = [watch EXCEPT ![w] = IF cleanupCompleted THEN Returns(@) ELSE GoesTo(@, "proc")]
    /\ UNCHANGED <<printVars, restVars, offset, window, driver, procRunning, queue, finePrintCancel,
                   finePrintActive, cleanupCompleted, allowExit, autoPrintTriggered,
                   quit, launches>>

\* evaluateFinePrintState, lines 972-980: isProcessRunning; ok: tasklist ran
StepProcess(w, ok) ==
    /\ w \in DOMAIN watch /\ watch[w].pc = "proc"
    /\ LET r == Ran(watch[w], "tasklist")
       IN  watch' = [watch EXCEPT ![w] =
               IF ~ok THEN Returns(r)
               ELSE IF ~procRunning /\ ~finePrintActive THEN Returns(r)
               ELSE GoesTo([r EXCEPT !.running = procRunning], "ensure")]
    /\ UNCHANGED <<printVars, restVars, offset, window, driver, procRunning, queue, finePrintCancel,
                   finePrintActive, cleanupCompleted, allowExit, autoPrintTriggered,
                   quit, launches>>

\* evaluateFinePrintState, lines 982-985, and ensurePrinterPaused, lines 1035-1044:
\* GetPrinterStatus(defaultPrinterName), and PausePrinter(defaultPrinterName)
\* unless the status says paused; statusOK, pauseOK: the two commands ran
StepEnsurePaused(w, statusOK, pauseOK) ==
    /\ w \in DOMAIN watch /\ watch[w].pc = "ensure"
    /\ LET status == StatusOf(window[defaultPrinterName])
           r == Ran(watch[w], "Get-Printer")
       IN  IF ~statusOK
           THEN watch' = [watch EXCEPT ![w] = Returns(r)] /\ UNCHANGED window
           ELSE IF status.IsPaused
           THEN watch' = [watch EXCEPT ![w] = GoesTo(r, "jobs")] /\ UNCHANGED window
           ELSE IF ~pauseOK
           THEN watch' = [watch EXCEPT ![w] = Returns(r)] /\ UNCHANGED window
           ELSE /\ watch' = [watch EXCEPT ![w] = GoesTo(Ran(r, "Set-Printer pause"), "jobs")]
                /\ window' = [window EXCEPT ![defaultPrinterName] = PauseWindow(offset)]
    /\ UNCHANGED <<printVars, restVars, offset, driver, procRunning, queue, finePrintCancel,
                   finePrintActive, cleanupCompleted, allowExit, autoPrintTriggered,
                   quit, launches>>

\* a job listing that takes finePrintActive back when FinePrint.exe has ended
StepJobsRewinds(w, ok) ==
    /\ w \in DOMAIN watch /\ watch[w].pc = "jobs"
    /\ LET r == Ran(watch[w], "Get-PrintJob")
           first == watch[w].running /\ ~finePrintActive
       IN  /\ watch' = [watch EXCEPT ![w] =
                 IF ~ok THEN Returns(r)
                 ELSE IF queue THEN GoesTo(Forgets(r), "remove")
                 ELSE IF first /\ ~autoPrintTriggered
                 THEN GoesTo([Forgets(r) EXCEPT !.wrote = TRUE], "launch")
                 ELSE Returns(r)]
           /\ finePrintActive' = IF ok /\ ~queue THEN watch[w].running ELSE finePrintActive
    /\ UNCHANGED <<printVars, restVars, offset, window, driver, procRunning, queue, finePrintCancel,
                   cleanupCompleted, allowExit, autoPrintTriggered, quit, launches>>

\* evaluateFinePrintState, lines 987-1004, and triggerAutoPrint, lines 1079-1081:
\* GetPrinterJobs and the branch of an empty queue; ok: Get-PrintJob ran.
\* wrote: the tick has assigned a flag of the watchdog.
StepJobs(w, ok) ==
    /\ w \in DOMAIN watch /\ watch[w].pc = "jobs"
    /\ LET r == Ran(watch[w], "Get-PrintJob")
           first == watch[w].running /\ ~finePrintActive
       IN  /\ watch' = [watch EXCEPT ![w] =
                 IF ~ok THEN Returns(r)
                 ELSE IF queue THEN GoesTo(Forgets(r), "remove")
                 ELSE IF first /\ ~autoPrintTriggered
                 THEN GoesTo([Forgets(r) EXCEPT !.wrote = TRUE], "launch")
                 ELSE Returns(r)]
           /\ finePrintActive' = IF ok /\ ~queue /\ first THEN TRUE ELSE finePrintActive
    /\ UNCHANGED <<printVars, restVars, offset, window, driver, procRunning, queue, finePrintCancel,
                   cleanupCompleted, allowExit, autoPrintTriggered, quit, launches>>

\* a launch that does not record the helper as triggered
StepLaunchUnrecorded(w, ok) ==
    /\ w \in DOMAIN watch /\ watch[w].pc = "launch"
    /\ watch' = [watch EXCEPT ![w] = Returns(@)]
    /\ launches' = IF ok THEN launches + 1 ELSE launches
    /\ UNCHANGED <<printVars, restVars, offset, window, driver, procRunning, queue, finePrintCancel,
                   finePrintActive, cleanupCompleted, allowExit, autoPrintTriggered, quit>>

\* triggerAutoPrint, lines 1083-1108: os.Getwd, os.Stat and cmd.Start;
\* ok: the three of them succeeded
StepLaunch(w, ok) ==
    /\ w \in DOMAIN watch /\ watch[w].pc = "launch"
    /\ watch' = [watch EXCEPT ![w] = Returns(@)]
    /\ launches' = IF ok THEN launches + 1 ELSE launches
    /\ autoPrintTriggered' = IF ok THEN TRUE ELSE autoPrintTriggered
    /\ UNCHANGED <<printVars, restVars, offset, window, driver, procRunning, queue, finePrintCancel,
                   finePrintActive, cleanupCompleted, allowExit, quit>>

\* removeAllPrinterJobs: Get-PrintJob, and Remove-PrintJob for the jobs listed
Removals(r, jobs) ==
    IF jobs THEN Ran(Ran(r, "Get-PrintJob"), "Remove-PrintJob") ELSE Ran(r, "Get-PrintJob")

\* evaluateFinePrintState, lines 1006-1013, and removeAllPrinterJobs: the queue
\* is listed again (ok: Get-PrintJob ran) and the jobs are removed; a removal
\* that fails is skipped (allRemoved: none failed)
StepRemove(w, ok, allRemoved) ==
    /\ w \in DOMAIN watch /\ watch[w].pc = "remove"
    /\ IF ~ok
       THEN /\ watch' = [watch EXCEPT ![w] = Returns(@)]
            /\ UNCHANGED queue
       ELSE /\ watch' = [watch EXCEPT ![w] = GoesTo(Removals(@, queue), "resume")]
            /\ queue' = (queue /\ ~allRemoved)
    /\ UNCHANGED <<printVars, restVars, offset, window, driver, procRunning, finePrintCancel,
                   finePrintActive, cleanupCompleted, allowExit, autoPrintTriggered,
                   quit, launches>>

\* evaluateFinePrintState, lines 1015-1032: ResumePrinter (ok: Set-Printer ran),
\* the flags, the cancel of the loop and runtime.Quit
StepResume(w, ok) ==
    /\ w \in DOMAIN watch /\ watch[w].pc = "resume"
    /\ IF ~ok
       THEN /\ watch' = [watch EXCEPT ![w] = Returns(@)]
            /\ UNCHANGED <<window, finePrintActive, cleanupCompleted, allowExit, quit>>
       ELSE /\ window' = [window EXCEPT ![defaultPrinterName] = Unrestricted]
            /\ finePrintActive' = FALSE
            /\ cleanupCompleted' = TRUE
            /\ allowExit' = TRUE
            /\ watch' = [Cancel(watch, finePrintCancel) EXCEPT ![w] = Returns(@)]
            /\ quit' = (quit \/ ctx)
    /\ UNCHANGED <<printVars, restVars, offset, driver, procRunning, queue, finePrintCancel,
                   autoPrintTriggered, launches>>

WatchNext ==
    \/ SetContext
    \/ EnvProcess
    \/ EnvJob
    \/ StartFinePrintMonitor
    \/ StopFinePrintMonitor
    \/ \E w \in Watchers : WatchTick(w)
    \/ \E w \in Watchers : WatchExit(w)
    \/ \E w \in Watchers, ok \in BOOLEAN : StepProcess(w, ok)
    \/ \E w \in Watchers, statusOK, pauseOK \in BOOLEAN : StepEnsurePaused(w, statusOK, pauseOK)
    \/ \E w \in Watchers, ok \in BOOLEAN : StepJobs(w, ok)
    \/ \E w \in Watchers, ok \in BOOLEAN : StepLaunch(w, ok)
    \/ \E w \in Watchers, ok, allRemoved \in BOOLEAN : StepRemove(w, ok, allRemoved)
    \/ \E w \in Watchers, ok \in BOOLEAN : StepResume(w, ok)

(* ------------------------ window and shutdown -------------------------- *)

\* ShowWindow, lines 696-702, called by the tray menu
ShowWindow ==
    /\ ctx /\ ~quit /\ ~closed /\ ~down
    /\ isWindowVisible' = TRUE
    /\ UNCHANGED <<printVars, appVars, jobVars, frameVars, monVars, timeVars, closed, down>>

\* an OnBeforeClose that lets the window close whatever allowExit is
OnBeforeCloseAllows ==
    /\ ctx /\ ~closed /\ ~down
    /\ closed' = TRUE
    /\ UNCHANGED <<printVars, appVars, jobVars, frameVars, monVars, timeVars, isWindowVisible, down>>

\* OnBeforeClose, lines 669-679, called when the window is about to close:
\* false lets it close; else HideWindow (lines 705-710) and true
OnBeforeClose ==
    /\ ctx /\ ~closed /\ ~down
    /\ IF allowExit
       THEN closed' = TRUE /\ UNCHANGED isWindowVisible
       ELSE closed' = FALSE /\ isWindowVisible' = FALSE
    /\ UNCHANGED <<printVars, appVars, jobVars, frameVars, monVars, timeVars, down>>

\* QuitApp, lines 713-717, called by the page or the tray menu
QuitApp ==
    /\ ctx /\ ~quit /\ ~down
    /\ quit' = TRUE
    /\ UNCHANGED <<printVars, restVars, offset, window, driver, procRunning, queue, finePrintCancel,
                   finePrintActive, cleanupCompleted, allowExit, autoPrintTriggered,
                   launches, watch>>

\* shutdown, lines 681-694, called when the application ends: after
\* runtime.Quit or a close that OnBeforeClose let through; the goroutines run
\* on until the process is gone
shutdown ==
    /\ ctx /\ ~down
    /\ quit \/ closed
    /\ down' = TRUE
    /\ watch' = Cancel(watch, finePrintCancel)
    /\ UNCHANGED <<printVars, jobVars, frameVars, monVars, timeVars, offset, window, driver, procRunning, queue,
                   finePrintCancel, finePrintActive, cleanupCompleted, allowExit,
                   autoPrintTriggered, quit, launches, isWindowVisible, closed>>

\* the watchdog and the requests to close the window
CloseNext ==
    \/ WatchNext
    \/ ShowWindow
    \/ OnBeforeClose

\* the watchdog and the end of the application
StopNext ==
    \/ WatchNext
    \/ QuitApp
    \/ shutdown

(* ---------------------------- print queue ------------------------------ *)

\* number of jobs the queue of the default printer is followed with
MaxJobs == 2
JobIDs == 1..MaxJobs

\* names the UI passes that stand for the default printer
DefaultNames == {"", " A5"}

\* The text PowerShell prints, as a sequence of lexemes: white space, the
\* brackets and the comma of a JSON array, null, the JSON object of the job
\* with a given id ("obj"), and such an object cut short ("cut").
Lex(t) == [t |-> t, id |-> 0]
Obj(j) == [t |-> "obj", id |-> j]
Cut(j) == [t |-> "cut", id |-> j]

\* ConvertTo-Json of an array of jobs: one object per line between brackets
RECURSIVE JsonItems(_)
JsonItems(ids) ==
    IF Len(ids) = 0 THEN <<>>
    ELSE IF Len(ids) = 1 THEN <<Lex("sp"), Obj(ids[1]), Lex("sp")>>
    ELSE <<Lex("sp"), Obj(ids[1]), Lex(",")>> \o JsonItems(Tail(ids))

JsonArray(ids) == <<Lex("[")>> \o JsonItems(ids) \o <<Lex("]")>>

\* what the script of GetPrinterJobs can print for the queue ids: nothing,
\* null or an empty array for no job, a bare object for one job, an array
\* otherwise; with or without white space around it
Printed(ids) ==
    LET bare == IF Len(ids) = 0
                THEN {<<>>, <<Lex("null")>>, <<Lex("["), Lex("]")>>, <<Lex("["), Lex("sp"), Lex("]")>>}
                ELSE IF Len(ids) = 1 THEN {<<Obj(ids[1])>>, JsonArray(ids)}
                ELSE {JsonArray(ids)}
    IN  bare \cup {<<Lex("sp")>> \o b \o <<Lex("sp")>> : b \in bare}

\* output that is no JSON value: an object or an array cut short
Garbled(ids) ==
    IF Len(ids) = 0 THEN {<<Lex("[")>>}
    ELSE {<<Cut(ids[1])>>, <<Lex("["), Obj(ids[1])>>, <<Obj(ids[1]), Lex("]")>>}

\* strings.TrimSpace on the text
RECURSIVE TrimLeft(_)
TrimLeft(text) ==
    IF text # <<>> /\ Head(text).t = "sp" THEN TrimLeft(Tail(text)) ELSE text

RECURSIVE TrimRight(_)
TrimRight(text) ==
    IF text # <<>> /\ text[Len(text)].t = "sp"
    THEN TrimRight(SubSeq(text, 1, Len(text) - 1))
    ELSE text

TrimText(text) == TrimRight(TrimLeft(text))

\* the PrintJob decoded from the object of a job
PrintJob(o) == [ID |-> o.id]

\* a result of GetPrinterJobs: the slice, whether it is the nil slice, the error
JobsOK(jobs) == [jobs |-> jobs, isNil |-> FALSE, err |-> NoErr]
JobsErr(e) == [jobs |-> <<>>, isNil |-> TRUE, err |-> e]

MsgDecodeJob == "decode printer job"
MsgDecodeJobs == "decode printer jobs"

\* json.Unmarshal of the elements between the brackets of an array: white
\* space skipped, objects separated by commas; FALSE in ok when malformed
RECURSIVE UnmarshalItems(_, _)
UnmarshalItems(toks, first) ==
    IF toks = <<>> THEN [ok |-> first, jobs |-> <<>>]
    ELSE IF ~first /\ Head(toks).t # "," THEN [ok |-> FALSE, jobs |-> <<>>]
    ELSE LET rest == IF first THEN toks ELSE Tail(toks)
         IN  IF rest = <<>> \/ Head(rest).t # "obj" THEN [ok |-> FALSE, jobs |-> <<>>]
             ELSE LET more == IF Len(rest) = 1 THEN [ok |-> TRUE, jobs |-> <<>>]
                              ELSE UnmarshalItems(Tail(rest), FALSE)
                  IN  [ok |-> more.ok, jobs |-> <<PrintJob(Head(rest))>> \o more.jobs]

\* the text without its white space, which JSON allows between any two lexemes
NoSpace(text) == SelectSeq(text, LAMBDA x : x.t # "sp")

\* json.Unmarshal(raw, &jobs) with jobs a nil []PrintJob
UnmarshalJobs(raw) ==
    LET toks == NoSpace(raw)
        n == Len(toks)
    IN  IF toks = <<Lex("null")>> THEN [jobs |-> <<>>, isNil |-> TRUE, err |-> NoErr]
        ELSE IF n < 2 \/ toks[1].t # "[" \/ toks[n].t # "]" THEN JobsErr(MsgDecodeJobs)
        ELSE LET items == UnmarshalItems(SubSeq(toks, 2, n - 1), TRUE)
             IN  IF items.ok THEN JobsOK(items.jobs) ELSE JobsErr(MsgDecodeJobs)

\* a decoding that leaves an empty answer as the nil slice and reads a bare
\* object as an array
DecodeJobsPlain(text) == UnmarshalJobs(TrimText(text))

\* GetPrinterJobs, lines 871-888: the output of the script to the slice
DecodeJobs(text) ==
    LET raw == TrimText(text)
    IN  IF raw = <<>> \/ raw = <<Lex("["), Lex("]")>> \/ raw = <<Lex("null")>>
        THEN JobsOK(<<>>)
        ELSE IF Head(raw).t \in {"obj", "cut"}
        THEN IF NoSpace(raw) = <<Obj(Head(raw).id)>>
             THEN JobsOK(<<PrintJob(Head(raw))>>)
             ELSE JobsErr(MsgDecodeJob)
        ELSE UnmarshalJobs(raw)

\* no binding call yet, and no removeAllPrinterJobs under way
NoJobsCall ==
    [op |-> "", target |-> "", id |-> 0, out |-> <<>>, result |-> JobsErr(NoErr)]
NoRemoval ==
    [pc |-> "idle", jobs |-> <<>>, i |-> 0, tried |-> <<>>, removed |-> 0, err |-> NoErr]

JobInit ==
    /\ spool = <<>>
    /\ jobsCall = NoJobsCall
    /\ rm = NoRemoval

\* the queue without the job id
Without(ids, id) == SelectSeq(ids, LAMBDA j : j # id)
\* the ids in the queue
InSpool == {spool[k] : k \in DOMAIN spool}

\* a job is sent to the default printer
EnvSubmit(j) ==
    /\ j \notin InSpool
    /\ spool' = Append(spool, j)
    /\ UNCHANGED <<printVars, appVars, frameVars, otherVars, jobsCall, rm>>

\* a job leaves the queue by itself: printed, or deleted by somebody else
EnvGone(j) ==
    /\ j \in InSpool
    /\ spool' = Without(spool, j)
    /\ UNCHANGED <<printVars, appVars, frameVars, otherVars, jobsCall, rm>>

\* App.GetPrinterJobs called from the UI. ok: PowerShell ended with exit
\* code 0, and text is what it printed
GetPrinterJobs(name, ok, text) ==
    /\ ctx
    /\ LET target == IF TrimSpace(name) = "" THEN defaultPrinterName ELSE TrimSpace(name)
       IN  jobsCall' = [op |-> "GetPrinterJobs", target |-> target, id |-> 0,
                        out |-> IF ok THEN text ELSE <<>>,
                        result |-> IF ok THEN DecodeJobs(text) ELSE JobsErr(MsgCommandFailed)]
    /\ UNCHANGED <<printVars, appVars, frameVars, otherVars, spool, rm>>

\* Remove-PrintJob -ID id: the job leaves the queue when the command runs (ok)
\* and the job is there; the queue is as it was otherwise
Removed(ids, id, ok) == IF ok THEN Without(ids, id) ELSE ids

\* App.RemovePrintJob called from the UI
RemovePrintJob(name, id, ok) ==
    /\ ctx
    /\ LET target == IF TrimSpace(name) = "" THEN defaultPrinterName ELSE TrimSpace(name)
           done == ok /\ id \in InSpool
       IN  /\ spool' = Removed(spool, id, ok)
           /\ jobsCall' = [op |-> "RemovePrintJob", target |-> target, id |-> id,
                           out |-> <<>>,
                           result |-> JobsErr(IF done THEN NoErr ELSE MsgCommandFailed)]
    /\ UNCHANGED <<printVars, appVars, frameVars, otherVars, rm>>

\* removeAllPrinterJobs, lines 1060-1066: the queue is listed
RemoveAllList(ok, text) ==
    /\ ctx
    /\ rm.pc \in {"idle", "done"}
    /\ LET listed == IF ok THEN DecodeJobs(text) ELSE JobsErr(MsgCommandFailed)
       IN  rm' = IF listed.err # NoErr
                 THEN [NoRemoval EXCEPT !.pc = "done", !.err = listed.err]
                 ELSE IF listed.jobs = <<>>
                 THEN [NoRemoval EXCEPT !.pc = "done"]
                 ELSE [NoRemoval EXCEPT !.pc = "loop", !.jobs = listed.jobs, !.i = 1]
    /\ UNCHANGED <<printVars, appVars, frameVars, otherVars, spool, jobsCall>>

\* a loop that gives up at the first removal that fails
RemoveAllStepAborts(ok) ==
    /\ rm.pc = "loop"
    /\ LET id == rm.jobs[rm.i].ID
           done == ok /\ id \in InSpool
       IN  /\ spool' = Removed(spool, id, ok)
           /\ rm' = [rm EXCEPT !.tried = Append(@, id),
                               !.removed = IF done THEN @ + 1 ELSE @,
                               !.i = @ + 1,
                               !.pc = IF rm.i = Len(rm.jobs) \/ ~done THEN "done" ELSE "loop"]
    /\ UNCHANGED <<printVars, appVars, frameVars, otherVars, jobsCall>>

\* removeAllPrinterJobs, lines 1068-1076: RemovePrintJob for the next job of
\* the list; a failure is logged and the loop goes on
RemoveAllStep(ok) ==
    /\ rm.pc = "loop"
    /\ LET id == rm.jobs[rm.i].ID
           done == ok /\ id \in InSpool
       IN  /\ spool' = Removed(spool, id, ok)
           /\ rm' = [rm EXCEPT !.tried = Append(@, id),
                               !.removed = IF done THEN @ + 1 ELSE @,
                               !.i = @ + 1,
                               !.pc = IF rm.i = Len(rm.jobs) THEN "done" ELSE "loop"]
    /\ UNCHANGED <<printVars, appVars, frameVars, otherVars, jobsCall>>

\* the print-job bindings and the cleanup loop, with a queue that changes
JobsNext ==
    \/ SetContext
    \/ \E j \in JobIDs : EnvSubmit(j)
    \/ \E j \in JobIDs : EnvGone(j)
    \/ \E name \in DefaultNames :
         \E text \in Printed(spool) \cup Garbled(spool) : GetPrinterJobs(name, TRUE, text)
    \/ \E name \in DefaultNames : GetPrinterJobs(name, FALSE, <<>>)
    \/ \E name \in DefaultNames, id \in JobIDs, ok \in BOOLEAN : RemovePrintJob(name, id, ok)
    \/ \E text \in Printed(spool) \cup Garbled(spool) : RemoveAllList(TRUE, text)
    \/ RemoveAllList(FALSE, <<>>)
    \/ \E ok \in BOOLEAN : RemoveAllStep(ok)

(* ------------------------- loadReportFrame ----------------------------- *)

\* number of loadReportFrame calls
MaxLoads == 3
Loads == 1..MaxLoads

\* entryUrl of a call: empty or not
EntryURLs == {"", "entryUrl"}

\* a call that has just been made: its position, its argument entryUrl, the
\* variable settled of its closure, and the resolve and reject calls made on
\* its promise
NewLoad(url) == [pc |-> "waiting", entryUrl |-> url, settled |-> FALSE, calls |-> <<>>]

FrameInit ==
    /\ frameSrc = 0
    /\ frameDoc = 0
    /\ listeners = {}
    /\ timers = {}
    /\ load = <<>>

\* the state of a promise after the resolve and reject calls made on it: the
\* first one settles it, the others do nothing
Promise(calls) == IF calls = <<>> THEN "pending" ELSE Head(calls)

\* onLoad of call l, lines 278-285 (its cleanup is in the action)
OnLoad(ld, l) ==
    IF ld[l].settled THEN ld
    ELSE [ld EXCEPT ![l].pc = "done", ![l].settled = TRUE,
                    ![l].calls = Append(@, "resolved")]

\* a call that does not look at entryUrl before it touches the frame
LoadReportFrameUnchecked(l, url) ==
    /\ l = Len(load) + 1
    /\ load' = Append(load, NewLoad(url))
    /\ timers' = timers \cup {l}
    /\ listeners' = listeners \cup {l}
    /\ frameSrc' = l
    /\ UNCHANGED <<printVars, appVars, jobVars, otherVars, frameDoc>>

\* loadReportFrame(entryUrl, timeout), lines 262-299: the executor of the promise
LoadReportFrame(l, url) ==
    /\ l = Len(load) + 1
    /\ IF url = ""
       THEN /\ load' = Append(load, [NewLoad(url) EXCEPT !.pc = "done",
                                                         !.calls = <<MsgNoEntryURL>>])
            /\ UNCHANGED <<frameSrc, listeners, timers>>
       ELSE /\ load' = Append(load, NewLoad(url))
            /\ timers' = timers \cup {l}
            /\ listeners' = listeners \cup {l}
            /\ frameSrc' = l
    /\ UNCHANGED <<printVars, appVars, jobVars, otherVars, frameDoc>>

\* the iframe fires a load event, for the page it was given (arrived) or for
\* any other reason: every onLoad attached runs and is detached (once: true,
\* and cleanup), the timers of the calls it resolves are cleared
FrameLoad(arrived) ==
    /\ frameDoc' = IF arrived THEN frameSrc ELSE frameDoc
    /\ load' = [l \in DOMAIN load |-> IF l \in listeners THEN OnLoad(load, l)[l] ELSE load[l]]
    /\ timers' = timers \ {l \in listeners : ~load[l].settled}
    /\ listeners' = {}
    /\ UNCHANGED <<printVars, appVars, jobVars, otherVars, frameSrc>>

\* a timer callback that runs although the timer was cleared, and does not
\* look at settled
TimerFiresAnyway(l) ==
    /\ l \in DOMAIN load /\ load[l].calls # <<MsgNoEntryURL>>
    /\ Len(load[l].calls) < 2
    /\ timers' = timers \ {l}
    /\ listeners' = listeners \ {l}
    /\ load' = [load EXCEPT ![l].pc = "done", ![l].settled = TRUE,
                                    ![l].calls = Append(@, MsgLoadTimeout)]
    /\ UNCHANGED <<printVars, appVars, jobVars, otherVars, frameSrc, frameDoc>>

\* a timer callback that leaves the listener attached
TimerFiresLeaks(l) ==
    /\ l \in timers
    /\ timers' = timers \ {l}
    /\ load' = IF load[l].settled THEN load
               ELSE [load EXCEPT ![l].pc = "done", ![l].settled = TRUE,
                                    ![l].calls = Append(@, MsgLoadTimeout)]
    /\ UNCHANGED <<printVars, appVars, jobVars, otherVars, frameSrc, frameDoc, listeners>>

\* the callback of setTimeout, lines 287-294: the timer of call l expires
TimerFires(l) ==
    /\ l \in timers
    /\ timers' = timers \ {l}
    /\ IF load[l].settled
       THEN UNCHANGED <<load, listeners>>
       ELSE /\ listeners' = listeners \ {l}
            /\ load' = [load EXCEPT ![l].pc = "done", ![l].settled = TRUE,
                                            ![l].calls = Append(@, MsgLoadTimeout)]
    /\ UNCHANGED <<printVars, appVars, jobVars, otherVars, frameSrc, frameDoc>>

FrameNext ==
    \/ \E l \in Loads, url \in EntryURLs : LoadReportFrame(l, url)
    \/ \E arrived \in BOOLEAN : FrameLoad(arrived)
    \/ \E l \in Loads : TimerFires(l)

(* --------------------------- the API monitor --------------------------- *)

\* length of the task list and number of executions that are followed
MaxTasks == 1
MaxRuns == 2

TaskNames == {"a", "b"}
\* timeoutMs of a task: not set, and the documented default
TimeoutsMs == {0, 1000}
Tokens == {"", "token"}

MsgInvalidRequest == "Invalid request"
MsgRequestTimeout == "Request timeout"
MsgRequestFailed == "Request failed"
MsgReadFailed == "Failed to read response"
MsgHTTPStatus == "HTTP status"
MsgSaveFailed == "save config failed"
MsgScheduleFailed == "schedule failed"
MsgReloadFailed == "reload config failed"

\* a TaskConfig as the page hands it to AddTask and UpdateTask
TaskConfig(name, enabled, timeoutMs) ==
    [Name |-> name, Enabled |-> enabled, TimeoutMs |-> timeoutMs,
     LastExecuted |-> "", LastStatus |-> "", LastError |-> ""]

NewTasks == {TaskConfig(n, e, t) : n \in TaskNames, e \in BOOLEAN, t \in TimeoutsMs}

\* the job addTask gives to cron for a task: the closure over task.Name and
\* task.TimeoutMs
Entry(task) == [Name |-> task.Name, TimeoutMs |-> task.TimeoutMs]

\* What happens to the request of an execution: it is not valid, the deadline
\* passes, client.Do fails otherwise, the body cannot be read, or a response
\* with a status code arrives after a number of milliseconds.
Outcomes ==
    {[kind |-> k, code |-> 0, duration |-> 0] : k \in {"invalid"}}
    \cup {[kind |-> k, code |-> 0, duration |-> 1001] : k \in {"timeout"}}
    \cup {[kind |-> k, code |-> 0, duration |-> 500] : k \in {"failed", "unread"}}
    \cup {[kind |-> "response", code |-> c, duration |-> d] :
            c \in {200, 299, 300}, d \in {500, 1001}}

\* the outcomes and the tasks the task list is followed with: the executions
\* time out, the tasks are enabled and have one timeoutMs
FewOutcomes == {o \in Outcomes : o.kind = "timeout"}
FewTasks == {t \in NewTasks : t.TimeoutMs = 1000 /\ t.Enabled}

\* the zero ExecutionResult
NoResult ==
    [Success |-> FALSE, StatusCode |-> 0, DurationMs |-> 0, TimedOut |-> FALSE,
     ErrorMessage |-> ""]

\* an Execute that takes every response for a success
ExecuteAnyStatus(o) ==
    IF o.kind = "invalid" THEN [NoResult EXCEPT !.ErrorMessage = MsgInvalidRequest]
    ELSE IF o.kind = "timeout"
    THEN [NoResult EXCEPT !.DurationMs = o.duration, !.TimedOut = TRUE,
                          !.ErrorMessage = MsgRequestTimeout]
    ELSE IF o.kind = "failed"
    THEN [NoResult EXCEPT !.DurationMs = o.duration, !.ErrorMessage = MsgRequestFailed]
    ELSE IF o.kind = "unread"
    THEN [NoResult EXCEPT !.DurationMs = o.duration, !.ErrorMessage = MsgReadFailed]
    ELSE [Success |-> TRUE, StatusCode |-> o.code, DurationMs |-> o.duration,
          TimedOut |-> FALSE, ErrorMessage |-> ""]

\* Executor.Execute, executor.go lines 45-108: the result for an outcome
Execute(o) ==
    IF o.kind = "invalid" THEN [NoResult EXCEPT !.ErrorMessage = MsgInvalidRequest]
    ELSE IF o.kind = "timeout"
    THEN [NoResult EXCEPT !.DurationMs = o.duration, !.TimedOut = TRUE,
                          !.ErrorMessage = MsgRequestTimeout]
    ELSE IF o.kind = "failed"
    THEN [NoResult EXCEPT !.DurationMs = o.duration, !.ErrorMessage = MsgRequestFailed]
    ELSE IF o.kind = "unread"
    THEN [NoResult EXCEPT !.DurationMs = o.duration, !.ErrorMessage = MsgReadFailed]
    ELSE LET success == o.code >= 200 /\ o.code < 300
         IN  [Success |-> success, StatusCode |-> o.code, DurationMs |-> o.duration,
              TimedOut |-> FALSE,
              ErrorMessage |-> IF success THEN "" ELSE MsgHTTPStatus]

\* executeTask, lines 206-209: the status of a result
StatusFor(result) ==
    IF result.TimedOut \/ ~result.Success \/ result.ErrorMessage # ""
    THEN "failed" ELSE "success"

\* executeTask, lines 214-228: SendAlert is called for the result
AlertWanted(result, timeoutMs) ==
    \/ result.TimedOut \/ result.ErrorMessage # "" \/ ~result.Success
    \/ result.DurationMs > timeoutMs

\* position of the first task of the list with the name, 0 if there is none
First(ts, name) ==
    IF \E i \in DOMAIN ts : ts[i].Name = name
    THEN CHOOSE i \in DOMAIN ts :
            ts[i].Name = name /\ \A k \in 1..(i - 1) : ts[k].Name # name
    ELSE 0

\* Config.RemoveTask, lines 596-606
ConfigRemoveTask(ts, name) ==
    LET i == First(ts, name)
    IN  IF i = 0 THEN ts ELSE SubSeq(ts, 1, i - 1) \o SubSeq(ts, i + 1, Len(ts))

\* Config.UpdateTaskStatus, lines 627-639
UpdateTaskStatus(ts, name, status, errorMsg) ==
    LET i == First(ts, name)
    IN  IF i = 0 THEN ts
        ELSE [ts EXCEPT ![i].LastStatus = status,
                        ![i].LastError = IF errorMsg # "" THEN errorMsg ELSE @]

NoTask == TaskConfig("", FALSE, 0)
NoCall == [op |-> "", pc |-> "idle", task |-> NoTask, err |-> ""]
\* the call c has returned err and released Scheduler.mu
Unlocked(c, err) == [NoCall EXCEPT !.err = err]

NoOutcome == [kind |-> "", code |-> 0, duration |-> 0]
\* an executeTask that has returned: its locals are gone
DoneRun ==
    [name |-> "", timeoutMs |-> 0, pc |-> "done", outcome |-> NoOutcome, alert |-> "none"]

\* LoadConfig without a file and Scheduler.Start: no token, no task
MonInit ==
    /\ token = ""
    /\ tasks = <<>>
    /\ file = <<>>
    /\ entries = {}
    /\ sched = NoCall
    /\ run = <<>>

\* the task lists LoadConfig is followed with
LoadedTasks == {<<>>} \cup {<<TaskConfig("a", TRUE, t)>> : t \in TimeoutsMs}

\* LoadConfig of a file and Scheduler.Start, lines 39-66: the enabled tasks
\* are scheduled
MonStart(tokens, lists) ==
    /\ token \in tokens
    /\ tasks \in lists
    /\ file = tasks
    /\ entries = {Entry(tasks[i]) : i \in {k \in DOMAIN tasks : tasks[k].Enabled}}
    /\ sched = NoCall
    /\ run = <<>>

\* Scheduler.AddTask, lines 101-107: Scheduler.mu is taken, the task is appended
AddTask(task) ==
    /\ sched.pc = "idle"
    /\ Len(tasks) < MaxTasks
    /\ tasks' = Append(tasks, task)
    /\ sched' = [op |-> "AddTask", pc |-> "save", task |-> task, err |-> ""]
    /\ UNCHANGED <<printVars, appVars, jobVars, frameVars, closeVars, timeVars, token, file, entries, run>>

\* Scheduler.RemoveTask, lines 122-126
RemoveTask(name) ==
    /\ sched.pc = "idle"
    /\ tasks' = ConfigRemoveTask(tasks, name)
    /\ sched' = [op |-> "RemoveTask", pc |-> "save", task |-> [NoTask EXCEPT !.Name = name],
                err |-> ""]
    /\ UNCHANGED <<printVars, appVars, jobVars, frameVars, closeVars, timeVars, token, file, entries, run>>

\* Scheduler.UpdateTask, lines 136-144
UpdateTask(task) ==
    /\ sched.pc = "idle"
    /\ Len(ConfigRemoveTask(tasks, task.Name)) < MaxTasks
    /\ tasks' = Append(ConfigRemoveTask(tasks, task.Name), task)
    /\ sched' = [op |-> "UpdateTask", pc |-> "save", task |-> task, err |-> ""]
    /\ UNCHANGED <<printVars, appVars, jobVars, frameVars, closeVars, timeVars, token, file, entries, run>>

\* The rest of AddTask (lines 109-119), RemoveTask (128-133) and UpdateTask
\* (146-151): SaveConfig (ok: the file was written), then addTask for an
\* enabled task (scheduled: the cron expression and the curl command were
\* accepted), or Restart. Restart calls Start, which locks Scheduler.mu, held
\* by the caller: the call never returns and the lock is never released.
SchedulerSave(ok, scheduled) ==
    /\ sched.pc = "save"
    /\ file' = IF ok THEN tasks ELSE file
    /\ IF ~ok
       THEN /\ sched' = Unlocked(sched, MsgSaveFailed)
            /\ UNCHANGED entries
       ELSE IF sched.op = "AddTask"
       THEN /\ entries' = IF sched.task.Enabled /\ scheduled
                          THEN entries \cup {Entry(sched.task)} ELSE entries
            /\ sched' = Unlocked(sched, IF sched.task.Enabled /\ ~scheduled
                                         THEN MsgScheduleFailed ELSE "")
       ELSE /\ sched' = [NoCall EXCEPT !.pc = "stuck"]
            /\ UNCHANGED entries
    /\ UNCHANGED <<printVars, appVars, jobVars, frameVars, closeVars, timeVars, token, tasks, run>>

\* Scheduler.Reload, lines 81-93: Scheduler.mu is taken and LoadConfig reads
\* the file (ok: it could be read and parsed); the new configuration replaces
\* the old one and Restart is called, which never returns as in RemoveTask
Reload(ok) ==
    /\ sched.pc = "idle"
    /\ IF ok
       THEN /\ tasks' = file
            /\ sched' = [NoCall EXCEPT !.op = "Reload", !.pc = "stuck"]
       ELSE /\ sched' = Unlocked(sched, MsgReloadFailed)
            /\ UNCHANGED tasks
    /\ UNCHANGED <<printVars, appVars, jobVars, frameVars, closeVars, timeVars, token, file, entries, run>>

\* cron runs a job: executeTask, lines 198-203, up to the result of Execute
ExecuteTaskBegin(e, o) ==
    /\ e \in entries
    /\ Len(run) < MaxRuns
    /\ run' = Append(run, [name |-> e.Name, timeoutMs |-> e.TimeoutMs, pc |-> "status",
                           outcome |-> o, alert |-> "none"])
    /\ UNCHANGED <<printVars, appVars, jobVars, frameVars, closeVars, timeVars, token, tasks, file, entries, sched>>

\* executeTask, lines 205-228: UpdateTaskStatus, and SendAlert when the
\* result asks for it and a token is configured (delivered: PushPlus took it)
ExecuteTaskStatus(r, delivered) ==
    /\ r \in DOMAIN run /\ run[r].pc = "status"
    /\ LET result == Execute(run[r].outcome)
       IN  /\ tasks' = UpdateTaskStatus(tasks, run[r].name, StatusFor(result),
                                        result.ErrorMessage)
           /\ run' = [run EXCEPT ![r].pc = "save",
                                 ![r].alert = IF AlertWanted(result, run[r].timeoutMs)
                                                 /\ token # ""
                                              THEN IF delivered THEN "sent" ELSE "failed"
                                              ELSE "none"]
    /\ UNCHANGED <<printVars, appVars, jobVars, frameVars, closeVars, timeVars, token, file, entries, sched>>

\* an executeTask that returns without SaveConfig
ExecuteTaskSaveSkips(r, ok) ==
    /\ r \in DOMAIN run /\ run[r].pc = "save"
    /\ run' = [run EXCEPT ![r] = DoneRun]
    /\ UNCHANGED <<printVars, appVars, jobVars, frameVars, closeVars, timeVars, token, tasks, file, entries, sched>>

\* executeTask, line 248: SaveConfig, its error dropped (ok: the file was written)
ExecuteTaskSave(r, ok) ==
    /\ r \in DOMAIN run /\ run[r].pc = "save"
    /\ file' = IF ok THEN tasks ELSE file
    /\ run' = [run EXCEPT ![r] = DoneRun]
    /\ UNCHANGED <<printVars, appVars, jobVars, frameVars, closeVars, timeVars, token, tasks, entries, sched>>

\* the executions of the scheduled tasks
RunNext ==
    \/ \E e \in entries, o \in Outcomes : ExecuteTaskBegin(e, o)
    \/ \E r \in 1..MaxRuns, delivered \in BOOLEAN : ExecuteTaskStatus(r, delivered)
    \/ \E r \in 1..MaxRuns, ok \in BOOLEAN : ExecuteTaskSave(r, ok)

\* the task list, its file and the executions that update it
MonNext ==
    \/ \E task \in FewTasks : AddTask(task)
    \/ \E name \in TaskNames : RemoveTask(name)
    \/ \E task \in FewTasks : UpdateTask(task)
    \/ \E ok, scheduled \in BOOLEAN : SchedulerSave(ok, scheduled)
    \/ \E e \in entries, o \in FewOutcomes : ExecuteTaskBegin(e, o)
    \/ \E r \in 1..MaxRuns, delivered \in BOOLEAN : ExecuteTaskStatus(r, delivered)
    \/ \E r \in 1..MaxRuns, ok \in BOOLEAN : ExecuteTaskSave(r, ok)

\* and the reloads of the configuration
LockNext ==
    \/ MonNext
    \/ \E ok \in BOOLEAN : Reload(ok)

(* ----------------------- the timeouts of a print ------------------------ *)

\* printer.go, lines 18 and 20, in milliseconds
defaultWaitTimeoutMS == 45000
defaultFrameLoadTimeoutMS == 25000
\* NewService, line 116: what is added to ReadyTimeout for ResultTimeout
ResultMarginMS == 15000
\* the page's own defaults for a timeout or an interval of 0
PageFrameLoadTimeoutMS == 20000
PageReadyIntervalMS == 300

\* printer.Config{}: what NewApp hands to NewService
ZeroConfig == [ReadyTimeout |-> 0, ReadyInterval |-> 0, FrameLoadTimeout |-> 0, ResultTimeout |-> 0]

\* the configurations NewService is followed with, durations in milliseconds
Configs ==
    [ReadyTimeout : {0, 10000}, ReadyInterval : {0}, FrameLoadTimeout : {0, 5000},
     ResultTimeout : {0, 30000}]

\* NewService, lines 106-117: the defaults of the durations that are not set
NewService(cfg) ==
    LET ready == IF cfg.ReadyTimeout = 0 THEN defaultWaitTimeoutMS ELSE cfg.ReadyTimeout
    IN  [ReadyTimeout |-> ready,
         ReadyInterval |-> IF cfg.ReadyInterval = 0 THEN ReadyIntervalMS ELSE cfg.ReadyInterval,
         FrameLoadTimeout |-> IF cfg.FrameLoadTimeout = 0 THEN defaultFrameLoadTimeoutMS
                              ELSE cfg.FrameLoadTimeout,
         ResultTimeout |-> IF cfg.ResultTimeout = 0 THEN ready + ResultMarginMS
                           ELSE cfg.ResultTimeout]

\* loadReportFrame: setTimeout(..., timeout || 20000)
FrameTimer(cfg) ==
    IF cfg.FrameLoadTimeout = 0 THEN PageFrameLoadTimeoutMS ELSE cfg.FrameLoadTimeout
\* waitForFR: const interval = intervalMs || 300
PollInterval(cfg) ==
    IF cfg.ReadyInterval = 0 THEN PageReadyIntervalMS ELSE cfg.ReadyInterval

\* milliseconds the entry page takes to load, and the polls of waitForFR at
\* which FR is found or the wait is given up
LoadDelays == {1000, 4000, 20000, 24000}
PollNumbers == {1, 25, 26, 50, 100, 113}

\* no print is on the clock: Service.cfg as NewService left it, and of the
\* last Print the milliseconds since its start, the result of the page and
\* what the select of Print took
NoTiming(cfg) ==
    [pc |-> "idle", cfg |-> NewService(cfg), now |-> 0, success |-> FALSE, outcome |-> ""]

\* NewApp: printer.NewService(printer.Config{})
TimingInit == timing = NoTiming(ZeroConfig)

\* Print, lines 165-171: the script is triggered and the select is entered
\* with time.After(ResultTimeout); executePrint starts on the page (line 304).
\* The clock starts here for both.
TimedPrint ==
    /\ timing.pc = "idle"
    /\ timing' = [timing EXCEPT !.pc = "load", !.now = 0, !.success = FALSE, !.outcome = ""]
    /\ UNCHANGED <<printVars, appVars, jobVars, frameVars, closeVars, monVars>>

\* executePrint, line 311: loadReportFrame(entryUrl, frameLoadTimeoutMs); the
\* load event comes d milliseconds later, or the timer fires first
TimedLoadFrame(d) ==
    /\ timing.pc = "load"
    /\ timing' = IF d < FrameTimer(timing.cfg)
                 THEN [timing EXCEPT !.pc = "ready", !.now = d]
                 ELSE [timing EXCEPT !.pc = "notify", !.now = FrameTimer(timing.cfg)]
    /\ UNCHANGED <<printVars, appVars, jobVars, frameVars, closeVars, monVars>>

\* executePrint, lines 313-315: waitForFR(win, readyTimeoutMs, readyIntervalMs)
\* ends at its poll number k: FR is there (found) and doURLPrint is called,
\* or the time since the start of the wait is above the timeout for the first
\* time
TimedWaitForFR(k, found) ==
    /\ timing.pc = "ready"
    /\ (k - 1) * PollInterval(timing.cfg) <= timing.cfg.ReadyTimeout
    /\ ~found => k * PollInterval(timing.cfg) > timing.cfg.ReadyTimeout
    /\ timing' = [timing EXCEPT !.pc = "notify", !.success = found,
                                !.now = @ + k * PollInterval(timing.cfg)]
    /\ UNCHANGED <<printVars, appVars, jobVars, frameVars, closeVars, monVars>>

\* executePrint, lines 319-322, and Print, lines 171-183: NotifyPrintResult is
\* called; the result is received by the select of Print unless
\* time.After(ResultTimeout) has fired (first: which of the two the select
\* takes when both are ready)
TimedNotify(first) ==
    /\ timing.pc = "notify"
    /\ timing' = [timing EXCEPT !.pc = "done",
                    !.outcome = IF timing.now < timing.cfg.ResultTimeout
                                   \/ (timing.now = timing.cfg.ResultTimeout /\ first)
                                THEN "received" ELSE "timed out"]
    /\ UNCHANGED <<printVars, appVars, jobVars, frameVars, closeVars, monVars>>

\* Print returns, lines 172-183
TimedReturn ==
    /\ timing.pc = "done"
    /\ timing' = [timing EXCEPT !.pc = "idle", !.now = 0, !.success = FALSE]
    /\ UNCHANGED <<printVars, appVars, jobVars, frameVars, closeVars, monVars>>

TimingNext ==
    \/ TimedPrint
    \/ \E d \in LoadDelays \cup {defaultFrameLoadTimeoutMS} : TimedLoadFrame(d)
    \/ \E k \in PollNumbers, found \in BOOLEAN : TimedWaitForFR(k, found)
    \/ \E first \in BOOLEAN : TimedNotify(first)
    \/ TimedReturn

\* startup, line 664: the window is hidden (StartHidden)
CloseInit ==
    /\ isWindowVisible = FALSE
    /\ closed = FALSE
    /\ down = FALSE

RestInit == JobInit /\ FrameInit /\ CloseInit /\ MonInit /\ TimingInit

(* ---------------------------- specification ---------------------------- *)

Notes == Calls \cup {EnvNote}

\* the request ids a script of the page can name: those it was handed, the
\* empty one and one that was never generated
EnvIDs == jsCalls \cup {EmptyID, BogusID}

PrintInit ==
    /\ ctx = FALSE
    /\ waiters = <<>>
    /\ nextID = 1
    /\ pc = [c \in Calls |-> "idle"]
    /\ requestID = [c \in Calls |-> EmptyID]
    /\ payload = [c \in Calls |-> NoPayload]
    /\ chan = [c \in Calls |-> <<>>]
    /\ ret = [c \in Calls |-> NotReturned]
    /\ jsCalls = {}
    /\ autoPrint = FALSE
    /\ note = [n \in Notes |-> NoNote]
    /\ exec = [e \in Execs |-> NoExec]

\* the print bridge does not look at the time zone
Init == PrintInit /\ offset = 0 /\ AppInit /\ RestInit

\* the Print calls, the page runs they start and the notifications of these
PrintNext ==
    \/ SetContext
    \/ Bootstrap
    \/ \E c \in Calls, p \in ParamsSet : PrintReject(c, p)
    \/ \E c \in Calls, p \in ParamsSet : PrintBegin(c, p)
    \/ \E c \in Calls : PrintTrack(c)
    \/ \E c \in Calls : PrintExecJS(c)
    \/ \E c \in Calls : PrintReceive(c)
    \/ \E c \in Calls : PrintTimeout(c)
    \/ \E c \in Calls : PrintUntrack(c)
    \/ \E c \in Calls : \E result \in PageResults(requestID[c]) : NotifyResult(c, result)
    \/ \E c \in Calls : NotifySend(c)

\* and the NotifyPrintResult calls of other scripts
Next ==
    \/ PrintNext
    \/ \E id \in EnvIDs : \E result \in EnvResults(id) : EnvNotifyResult(result)
    \/ NotifySend(EnvNote)
    \/ EnvNotifyReturn

Spec == Init /\ [][Next]_vars

PageSpec == Init /\ [][PageNext]_vars

\* the printer bindings on a host of any zone
DriverInit == PrintInit /\ offset \in ZoneOffsets /\ AppInit /\ RestInit

DriverSpec == DriverInit /\ [][DriverNext]_vars

StatusInit == PrintInit /\ offset \in WatchOffsets /\ AppInit /\ RestInit

StatusSpec == StatusInit /\ [][StatusNext]_vars

\* the watchdog, started by StartFinePrintMonitor
WatchInit == PrintInit /\ offset \in WatchOffsets /\ AppInit /\ RestInit

WatchSpec == WatchInit /\ [][WatchNext]_vars

\* The ticker of a live loop fires every 5 seconds, a tick runs to its end,
\* and a command that is tried again and again succeeds in the end.
WatchFairness ==
    \A w \in Watchers :
        /\ WF_vars(WatchTick(w) \/ WatchExit(w))
        /\ SF_vars(StepProcess(w, TRUE))
        /\ SF_vars(StepEnsurePaused(w, TRUE, TRUE))
        /\ SF_vars(StepJobs(w, TRUE))
        /\ SF_vars(StepLaunch(w, TRUE))
        /\ SF_vars(StepRemove(w, TRUE, TRUE))
        /\ SF_vars(StepResume(w, TRUE))

\* the watchdog on a host in UTC, with these
WatchLiveSpec == Init /\ [][WatchNext]_vars /\ WatchFairness

\* the window does not depend on the time zone
CloseSpec == Init /\ [][CloseNext]_vars

StopSpec == WatchInit /\ [][StopNext]_vars

\* the API monitor with a configuration in monitor.json
RunInit ==
    /\ PrintInit /\ offset = 0 /\ AppInit /\ JobInit /\ FrameInit /\ CloseInit /\ TimingInit
    /\ MonStart(Tokens, LoadedTasks)

\* and with no token, where no alert is sent
MonSpecInit ==
    /\ PrintInit /\ offset = 0 /\ AppInit /\ JobInit /\ FrameInit /\ CloseInit /\ TimingInit
    /\ MonStart({""}, {ts \in LoadedTasks : \A i \in DOMAIN ts : ts[i] \in FewTasks})

MonSpec == MonSpecInit /\ [][MonNext]_vars

RunSpec == RunInit /\ [][RunNext]_vars

LockSpec == MonSpecInit /\ [][LockNext]_vars

\* one print after another on the clock, with a Service of any configuration
TimingSpecInit ==
    /\ PrintInit /\ offset = 0 /\ AppInit /\ JobInit /\ FrameInit /\ CloseInit /\ MonInit
    /\ timing \in {NoTiming(cfg) : cfg \in Configs}

TimingSpec == TimingSpecInit /\ [][TimingNext]_vars

\* the print queue of the default printer
JobsSpec == Init /\ [][JobsNext]_vars

\* the preview frame; a timer that is pending expires in the end
FrameSpec == Init /\ [][FrameNext]_vars /\ \A l \in Loads : WF_vars(TimerFires(l))

(* ------------------------------ fairness ------------------------------ *)

\* A goroutine that can take its next step takes it, and the timer of
\* time.After fires; nothing obliges the page to run or to notify.
PrintFairness ==
    \A c \in Calls :
        /\ WF_vars(PrintTrack(c))
        /\ WF_vars(PrintExecJS(c))
        /\ WF_vars(PrintReceive(c) \/ PrintTimeout(c))
        /\ WF_vars(PrintUntrack(c))

LiveSpec == Init /\ [][PrintNext]_vars /\ PrintFairness

(* ------------------------- vocabulary of claims ------------------------ *)

\* the call has passed validation and has its request id
Validated(c) == pc[c] # "idle" /\ requestID[c] # EmptyID
\* the call is between s.track and its return
InFlight(c) == pc[c] \in {"exec", "wait", "untrack"}
Returned(c) == pc[c] = "done"
TimedOut(c) == Validated(c) /\ Returned(c) /\ ~ret[c].hasResult
\* the step is the locked section of a NotifyResult invocation in slot n
NotifyStep(n) == note[n].pc \in {"none", "running"} /\ note'[n].pc \in {"send", "done"}
\* the notifications that hold a result they are about to send to call c
Sending(c) == {n \in Notes : note[n].pc = "send" /\ note[n].ch = c}

(* -------------------------------- C1 ----------------------------------- *)

\* C1: the request id is in the pending registry before the page script is
\* triggered: a call about to trigger its script has its id registered, and
\* until then the id has not reached the page, so that no NotifyResult for it
\* (of the page run or of another script) exists.
C1_TrackBeforeTrigger ==
    \A c \in Calls :
        /\ pc[c] = "exec" => requestID[c] \in DOMAIN waiters /\ waiters[requestID[c]] = c
        /\ pc[c] \in {"track", "exec"} =>
             /\ requestID[c] \notin jsCalls
             /\ note[c].pc = "none"
             /\ \A n \in Notes : note[n].pc = "send" => note[n].result.RequestID # requestID[c]

\* a page run is under way for a call whose id is registered
C1_Witness ==
    \E c \in Calls : pc[c] = "wait" /\ note[c].pc = "running" /\ requestID[c] \in DOMAIN waiters

(* -------------------------------- C2 ----------------------------------- *)

\* C2: a call that got no result returns the timeout error and leaves its id
\* out of the registry; a NotifyResult invoked for that id after the return
\* is dropped and changes neither the registry nor any call or channel.
C2_TimeoutState ==
    \A c \in Calls :
        TimedOut(c) => ret[c].err = ErrTimeout /\ requestID[c] \notin DOMAIN waiters

C2_LateNotify ==
    \A c \in Calls : TimedOut(c) =>
        /\ requestID[c] \notin DOMAIN waiters'
        /\ ret'[c] = ret[c]
        /\ NotifyStep(c) => note'[c] = NoteDone
        /\ \A n \in Notes : NotifyStep(n) =>
             IF note'[n].pc = "send"
             THEN note'[n].result.RequestID # requestID[c]
             ELSE note'[n] = NoteDone /\ UNCHANGED <<waiters, chan, pc, ret>>

C2_Timeout == []C2_TimeoutState /\ [][C2_LateNotify]_vars

\* a call has timed out and the notification of its page run came afterwards
C2_Witness ==
    \E c \in Calls : TimedOut(c) /\ note[c].pc = "done" /\ chan[c] = <<>>

(* -------------------------------- C3 ----------------------------------- *)

\* C3 as claimed: every validated call that has returned holds a PrintResult
C3_AlwaysAResult ==
    \A c \in Calls : Validated(c) /\ Returned(c) => ret[c].hasResult

\* C3 amended: a validated call returns once, either with the one PrintResult
\* that was delivered for its id or with no PrintResult and the timeout error;
\* never are two results under way for one call.
C3_OneOutcomeState ==
    \A c \in Calls :
        /\ Validated(c) /\ Returned(c) =>
             \/ ret[c].hasResult /\ ret[c].result.RequestID = requestID[c]
             \/ ~ret[c].hasResult /\ ret[c].err = ErrTimeout
        /\ Cardinality(Sending(c)) + Len(chan[c]) + (IF ret[c].hasResult THEN 1 ELSE 0) <= 1

C3_OneOutcome ==
    []C3_OneOutcomeState /\ [][\A c \in Calls : Returned(c) => ret'[c] = ret[c] /\ pc'[c] = pc[c]]_vars

\* one call returned a delivered result while another returned the timeout error
C3_Witness ==
    \E c, d \in Calls :
        /\ Returned(c) /\ ret[c].hasResult
        /\ TimedOut(d) /\ ret[d].err = ErrTimeout

(* -------------------------------- C4 ----------------------------------- *)

\* C4 as claimed: every registered id belongs to one call blocked in the select
C4_OwnerBlocked ==
    \A id \in DOMAIN waiters :
        Cardinality({c \in Calls : requestID[c] = id /\ pc[c] = "wait"}) = 1

\* C4 amended: every registered id belongs to exactly one call that has
\* tracked it and has not returned; an entry that was removed never comes
\* back; no entry is left when its call has returned.
C4_OwnerInFlightState ==
    /\ \A id \in DOMAIN waiters :
         /\ Cardinality({c \in Calls : requestID[c] = id /\ InFlight(c)}) = 1
         /\ requestID[waiters[id]] = id
    /\ \A c \in Calls : Returned(c) /\ Validated(c) => requestID[c] \notin DOMAIN waiters

C4_RemovedOnce ==
    \A c \in Calls :
        (InFlight(c) \/ Returned(c)) /\ requestID[c] \notin DOMAIN waiters
            => requestID[c] \notin DOMAIN waiters'

C4_OwnerInFlight == []C4_OwnerInFlightState /\ [][C4_RemovedOnce]_vars

\* an entry was removed by the notification, another by the timeout path
C4_Witness ==
    \E c, d \in Calls :
        /\ pc[c] = "wait" /\ chan[c] # <<>> /\ requestID[c] \notin DOMAIN waiters
        /\ TimedOut(d) /\ note[d].pc = "running"

(* -------------------------------- C5 ----------------------------------- *)

\* the params lack the print URL, the printer name or the reportlets
Invalid(p) == p.PrintURL = "" \/ p.PrinterName = "" \/ p.Reportlets = 0

\* C5: Print with params that lack the print URL, the printer name or the
\* reportlets returns an error at once; it registers nothing, draws no request
\* id and hands no script to the page.
C5_Step ==
    \A c \in Calls : pc[c] = "idle" =>
        /\ pc'[c] = "done" =>
             /\ ret'[c].returned /\ ~ret'[c].hasResult /\ ret'[c].err # NoErr
             /\ ctx => ret'[c].err \in {ErrPrintURL, ErrPrinterName, ErrReportlets}
             /\ UNCHANGED <<waiters, jsCalls, note, chan, nextID, requestID, payload>>
        /\ pc'[c] \notin {"idle", "done"} =>
             \A p \in ParamsSet : Invalid(p) => ~PrintBegin(c, p)

C5_InvalidNoEffect == [][C5_Step]_vars

\* with the context set, one call was refused for its params while nothing
\* was registered or handed to the page
C5_Witness ==
    \E c \in Calls :
        /\ Returned(c) /\ ret[c].err \in {ErrPrintURL, ErrPrinterName, ErrReportlets}
        /\ requestID[c] = EmptyID /\ note[c].pc = "none"

(* -------------------------------- C6 ----------------------------------- *)

\* what a NotifyResult invocation with an unregistered id may do: nothing
Dropped(n) == note'[n] = NoteDone /\ UNCHANGED <<waiters, chan, pc, ret, requestID, jsCalls>>

\* C6: a NotifyResult whose id is not registered delivers nothing and leaves
\* the registry, the channels and the calls as they are; a NotifyResult whose
\* id is registered unregisters it, so that a second one for that id is dropped.
C6_Step ==
    /\ \A c \in Calls : NotifyStep(c) =>
         /\ requestID[c] \notin DOMAIN waiters => Dropped(c)
         /\ requestID[c] \notin DOMAIN waiters'
    /\ \A n \in Notes : NotifyStep(n) =>
         IF note'[n].pc = "send"
         THEN /\ note'[n].result.RequestID \in DOMAIN waiters
              /\ note'[n].result.RequestID \notin DOMAIN waiters'
         ELSE Dropped(n)

C6_UnknownDropped == [][C6_Step]_vars

\* a notification was dropped after the id's call had received its result
C6_Witness ==
    \E c \in Calls :
        /\ Returned(c) /\ ret[c].hasResult
        /\ note[c].pc = "done" /\ note[EnvNote].pc = "done"

(* -------------------------------- C7 ----------------------------------- *)

\* the entries, calls and channels of the ids other than id are untouched
OthersUntouched(id) ==
    /\ \A j \in (DOMAIN waiters \cup DOMAIN waiters') \ {id} :
         j \in DOMAIN waiters /\ j \in DOMAIN waiters' /\ waiters'[j] = waiters[j]
    /\ \A d \in Calls : requestID[d] # id =>
         pc'[d] = pc[d] /\ chan'[d] = chan[d] /\ ret'[d] = ret[d]

\* C7: a NotifyResult for one id removes only that id's entry and its result
\* goes only to the channel of the call that tracked that id; the entries,
\* channels and positions of the other calls are unchanged by it.
C7_Step ==
    /\ \A c \in Calls : NotifyStep(c) => OthersUntouched(requestID[c])
    /\ \A n \in Notes : NotifyStep(n) =>
         IF note'[n].pc = "send"
         THEN /\ requestID[note'[n].ch] = note'[n].result.RequestID
              /\ OthersUntouched(note'[n].result.RequestID)
         ELSE UNCHANGED <<waiters, chan, pc, ret>>
    /\ \A n \in Notes : note[n].pc = "send" /\ note'[n].pc # "send" =>
         /\ requestID[note[n].ch] = note[n].result.RequestID
         /\ OthersUntouched(note[n].result.RequestID)

C7_State ==
    \A c \in Calls :
        /\ chan[c] # <<>> => Head(chan[c]).RequestID = requestID[c]
        /\ ret[c].hasResult => ret[c].result.RequestID = requestID[c]

C7_Independent == []C7_State /\ [][C7_Step]_vars

\* one call has received its result while the other is still registered and waiting
C7_Witness ==
    \E c, d \in Calls :
        /\ Returned(c) /\ ret[c].hasResult
        /\ pc[d] = "wait" /\ requestID[d] \in DOMAIN waiters /\ chan[d] = <<>>

(* -------------------------------- C8 ----------------------------------- *)

\* C8: every Print call that has started waiting eventually returns, whether
\* or not the page installs window.__xAutoPrint or ever notifies.
C8_Returns ==
    \A c \in Calls : (pc[c] \in {"track", "exec", "wait", "untrack"}) ~> Returned(c)

\* a call has returned on the timeout although the page never installed the entry point
C8_Witness ==
    \E c \in Calls : TimedOut(c) /\ ~autoPrint /\ note[c].pc = "none"

(* -------------------------------- C10 ---------------------------------- *)

\* the step is the receive of call c
ReceiveStep(c) == pc[c] = "wait" /\ pc'[c] = "done" /\ chan[c] # <<>>

\* C10 as claimed: the error of a failed result is the delivered error string
C10_Verbatim ==
    [][\A c \in Calls : ReceiveStep(c) /\ ~Head(chan[c]).Success =>
          ret'[c].hasResult /\ ret'[c].err = Head(chan[c]).Error]_vars

\* C10 amended: Print returns the delivered failed result with an error whose
\* message is the delivered error string, or "unknown printing error" when
\* that string is empty; the returned result carries the same message.
C10_Step ==
    \A c \in Calls : ReceiveStep(c) /\ ~Head(chan[c]).Success =>
        LET delivered == Head(chan[c])
            message == IF delivered.Error = "" THEN ErrUnknown ELSE delivered.Error
        IN  /\ ret'[c].hasResult
            /\ ret'[c].err = message
            /\ ret'[c].result = [delivered EXCEPT !.Error = message]

C10_FailurePassed == [][C10_Step]_vars

\* a failure without a message and a failure with one have both been returned
C10_Witness ==
    \E c, d \in Calls :
        /\ Returned(c) /\ ret[c].hasResult /\ ret[c].err = ErrUnknown
        /\ Returned(d) /\ ret[d].hasResult /\ ret[d].err = MsgLoadTimeout

(* -------------------------------- C9 ----------------------------------- *)

\* C9: every executePrint invocation calls NotifyPrintResult exactly once,
\* with the request id of its payload, whatever its outcome: no call before
\* the finally block, one from it on.
C9_NotifiedOnce ==
    \A e \in Execs :
        /\ exec[e].pc \in {"none", "load", "waitFR", "doPrint", "finally"} => exec[e].calls = <<>>
        /\ exec[e].pc \in {"notifying", "done"} =>
             /\ Len(exec[e].calls) = 1
             /\ exec[e].calls[1].requestId = exec[e].requestId
             /\ exec[e].calls[1].success = (exec[e].outcome = "success")

\* one invocation is over after a frame-load timeout, another after an
\* exception of FR.doURLPrint, and both have notified
C9_Witness ==
    \E e, f \in Execs :
        /\ exec[e].pc = "done" /\ exec[e].outcome = "loadTimeout" /\ Len(exec[e].calls) = 1
        /\ exec[f].pc = "done" /\ exec[f].outcome = "thrown" /\ Len(exec[f].calls) = 1

(* -------------------------------- C11 ---------------------------------- *)

\* C11: a success result that reaches the channel of a waiting call before its
\* timeout is what Print returns: a nil error and a PrintResult with the id of
\* the call, success and a duration of zero or more; once the result is on
\* the channel the timeout no longer wins.
C11_Step ==
    \A c \in Calls :
        /\ ReceiveStep(c) /\ Head(chan[c]).Success =>
             /\ ret'[c].returned /\ ret'[c].hasResult /\ ret'[c].err = NoErr
             /\ ret'[c].result.RequestID = requestID[c]
             /\ ret'[c].result.Success
             /\ ret'[c].result.DurationMS >= 0
        /\ pc[c] = "wait" /\ chan[c] # <<>> => pc'[c] \in {"wait", "done"}

C11_State ==
    \A c \in Calls :
        /\ chan[c] # <<>> => Validated(c) /\ Head(chan[c]).RequestID = requestID[c]
        /\ Returned(c) /\ ret[c].hasResult /\ ret[c].result.Success =>
             /\ ret[c].err = NoErr
             /\ ret[c].result.RequestID = requestID[c]
             /\ ret[c].result.DurationMS >= 0

C11_SuccessReturned == []C11_State /\ [][C11_Step]_vars

\* a call has returned the success result its page run reported
C11_Witness ==
    \E c \in Calls :
        /\ Returned(c) /\ ret[c].err = NoErr
        /\ ret[c].hasResult /\ ret[c].result.Success
        /\ note[c].pc = "done" /\ note[EnvNote].pc = "none"

(* -------------------------------- C12 ---------------------------------- *)

\* the calls between the generation of their request id and their return
HasID(c) == pc[c] \in {"track", "exec", "wait", "untrack"}

\* C12: the calls in flight have pairwise distinct request ids, every entry of
\* the registry is the channel of the call that generated its id, and track
\* adds an entry without overwriting one.
C12_State ==
    /\ \A c, d \in Calls : c # d /\ HasID(c) /\ HasID(d) => requestID[c] # requestID[d]
    /\ \A id \in DOMAIN waiters : requestID[waiters[id]] = id /\ InFlight(waiters[id])

C12_TrackStep ==
    \A c \in Calls : pc[c] = "track" /\ pc'[c] # "track" =>
        /\ requestID[c] \notin DOMAIN waiters
        /\ DOMAIN waiters' = DOMAIN waiters \cup {requestID[c]}
        /\ \A id \in DOMAIN waiters : waiters'[id] = waiters[id]

C12_DistinctIDs == []C12_State /\ [][C12_TrackStep]_vars

\* two calls are registered at the same time
C12_Witness ==
    \E c, d \in Calls :
        /\ c # d /\ pc[c] = "wait" /\ pc[d] = "wait"
        /\ {requestID[c], requestID[d]} \subseteq DOMAIN waiters

(* -------------------------------- C13 ---------------------------------- *)

\* params that lack nothing but the print URL
OnlyPrintURLMissing(p) == p.PrintURL = "" /\ p.PrinterName # "" /\ p.Reportlets # 0

\* the URL a call asks for, and the configured one when it asks for none
Effective(explicit, default) == IF explicit # "" THEN explicit ELSE default

\* the payload of a call that passed the checks
C13_PayloadStep ==
    \A c \in Calls : pc[c] = "idle" /\ pc'[c] \notin {"idle", "done"} =>
        \A p \in ParamsSet : PrintBegin(c, p) =>
            /\ payload'[c].requestId = requestID'[c]
            /\ payload'[c].entryUrl = Effective(p.EntryURL, defaultEntryURL)
            /\ payload'[c].printUrl = Effective(p.PrintURL, defaultPrintURL)

\* C13 as stated: explicit over default for both URLs, and a call with an
\* empty print URL goes on with the default print URL.
C13_EmptyPrintURLProceeds ==
    [][/\ C13_PayloadStep
       /\ \A c \in Calls : ctx /\ pc[c] = "idle" /\ pc'[c] = "done" =>
             \A p \in ParamsSet : OnlyPrintURLMissing(p) => ~PrintReject(c, p)]_vars

\* C13, amended: the payload carries the entry URL of the call, or the
\* configured one when the call has none; it carries the print URL of the call,
\* which is never empty, since a call with an empty print URL is refused
\* before the payload is built.
C13_Step ==
    /\ C13_PayloadStep
    /\ \A c \in Calls : pc[c] = "idle" /\ pc'[c] \notin {"idle", "done"} =>
         \A p \in ParamsSet : PrintBegin(c, p) =>
            p.PrintURL # "" /\ payload'[c].printUrl = p.PrintURL
    /\ \A c \in Calls : pc[c] = "idle" /\ pc'[c] \notin {"idle", "done"} =>
         \A p \in ParamsSet : p.PrintURL = "" => ~PrintBegin(c, p)

C13_State ==
    \A c \in Calls : pc[c] \in {"track", "exec"} =>
        /\ payload[c].entryUrl \in {"entryUrl", defaultEntryURL}
        /\ payload[c].printUrl = "printUrl"

C13_EffectiveURLs == []C13_State /\ [][C13_Step]_vars

\* one payload with the configured entry URL and one with the entry URL of its call
C13_Witness ==
    \E c, d \in Calls :
        /\ pc[c] \in {"track", "exec"} /\ payload[c].entryUrl = defaultEntryURL
        /\ pc[d] \in {"track", "exec"} /\ payload[d].entryUrl = "entryUrl"
        /\ payload[c].printUrl = "printUrl"

(* ------------------------------- C14 ----------------------------------- *)

\* the commands of a tick up to the pause: the process list, the status of the
\* printer, and the pause when the status does not say paused
TickPrefixes ==
    {<<"tasklist", "Get-Printer">>, <<"tasklist", "Get-Printer", "Set-Printer pause">>}

\* the commands a tick has run when it has listed the jobs
LogsListed == {p \o <<"Get-PrintJob">> : p \in TickPrefixes}

\* the commands a tick has run when it is about to resume the printer
LogsRemoved ==
    {p \o <<"Get-PrintJob", "Get-PrintJob">> : p \in TickPrefixes}
    \cup {p \o <<"Get-PrintJob", "Get-PrintJob", "Remove-PrintJob">> : p \in TickPrefixes}

\* the commands of a tick come in the order of the cycle, and a tick goes on to
\* launch the helper only when it saw FinePrint.exe running
C14_Order(w) ==
    /\ watch[w].pc = "jobs" => watch[w].calls \in TickPrefixes
    /\ watch[w].pc = "remove" => watch[w].calls \in LogsListed
    /\ watch[w].pc = "launch" => watch[w].calls \in LogsListed /\ watch[w].wrote
    /\ watch[w].pc = "jobs" /\ watch'[w].pc = "launch" => watch[w].running
    /\ watch[w].pc = "resume" => watch[w].calls \in LogsRemoved

\* the first tick: the printer is paused (unless it is paused already), and
\* with FinePrint.exe running and the queue empty the helper is launched once
C14_FirstTick(w) ==
    /\ StepEnsurePaused(w, TRUE, TRUE) =>
          /\ watch'[w].pc = "jobs"
          /\ IF StatusOf(window[defaultPrinterName]).IsPaused
             THEN window' = window /\ watch'[w].calls = <<"tasklist", "Get-Printer">>
             ELSE /\ window'[defaultPrinterName] = PauseWindow(offset)
                  /\ watch'[w].calls = <<"tasklist", "Get-Printer", "Set-Printer pause">>
    /\ StepJobs(w, TRUE) /\ ~queue /\ watch[w].running /\ Flags = InitialFlags =>
          finePrintActive' /\ watch'[w].pc = "launch"
    /\ StepLaunch(w, TRUE) =>
          launches' = launches + 1 /\ autoPrintTriggered' /\ watch'[w].pc = "select"

\* a later tick that finds a job removes it, resumes the printer, sets the
\* flags, cancels the loop and requests the exit
C14_Cleanup(w) ==
    /\ StepJobs(w, TRUE) /\ queue => watch'[w].pc = "remove" /\ Flags' = Flags
    /\ StepRemove(w, TRUE, TRUE) =>
          /\ ~queue'
          /\ watch'[w].pc = "resume"
          /\ queue => watch'[w].calls = watch[w].calls \o <<"Get-PrintJob", "Remove-PrintJob">>
    /\ StepResume(w, TRUE) =>
          /\ window'[defaultPrinterName] = Unrestricted
          /\ ~finePrintActive' /\ cleanupCompleted' /\ allowExit'
          /\ finePrintCancel # 0 => watch'[finePrintCancel].cancelled
          /\ quit'
          /\ watch'[w].pc = "select"

\* a tick that begins after the cleanup runs no command
C14_AfterCleanup(w) ==
    /\ cleanupCompleted /\ watch[w].pc = "select" =>
          watch'[w].pc \in {"select", "exited"} /\ watch'[w].calls = <<>>
    /\ cleanupCompleted /\ WatchTick(w) =>
          UNCHANGED <<window, queue, launches, finePrintActive, cleanupCompleted,
                      allowExit, autoPrintTriggered>>

\* C14: from the initial flags, with FinePrint.exe running and the queue
\* empty, the first tick pauses the printer and launches the helper once; a
\* later tick that finds a job removes the job, then resumes the printer, then
\* sets the flags, cancels the loop and requests the exit, in that order; a
\* tick after the cleanup issues no driver command.
C14_FullCycle ==
    [][\A w \in DOMAIN watch :
          watch'[w] # watch[w] =>
              C14_Order(w) /\ C14_FirstTick(w) /\ C14_Cleanup(w) /\ C14_AfterCleanup(w)]_vars

\* one goroutine went through the whole cycle: one launch, the cleanup, the exit
C14_Witness ==
    /\ quit /\ cleanupCompleted /\ allowExit /\ ~finePrintActive /\ autoPrintTriggered
    /\ launches = 1
    /\ window[defaultPrinterName] = Unrestricted
    /\ ~queue
    /\ finePrintCancel = 1
    /\ Len(watch) = 1
    /\ watch[1].cancelled /\ watch[1].pc = "exited"

(* ------------------------------- C15 ----------------------------------- *)

\* the step is one of the tick of w in which a command fails: the process
\* query, the status query, the pause, the job listing, the helper launch,
\* the listing before the removal, the resume
TickFails(w) ==
    \/ StepProcess(w, FALSE)
    \/ \E pauseOK \in BOOLEAN : StepEnsurePaused(w, FALSE, pauseOK)
    \/ StepEnsurePaused(w, TRUE, FALSE) /\ ~StatusOf(window[defaultPrinterName]).IsPaused
    \/ StepJobs(w, FALSE)
    \/ StepLaunch(w, FALSE)
    \/ \E allRemoved \in BOOLEAN : StepRemove(w, FALSE, allRemoved)
    \/ StepResume(w, FALSE)

C15_FailStep ==
    \A w \in DOMAIN watch :
        TickFails(w) => /\ watch'[w].pc = "select"
                        /\ Flags' = Flags
                        /\ ~watch[w].wrote

\* C15: a tick in which a step fails returns early and has left the flags
\* finePrintActive, autoPrintTriggered, cleanupCompleted and allowExit as they
\* were before the tick. (Not so when the helper launch fails: the tick has
\* set finePrintActive before it tries the launch.)
C15_FailureLeavesFlags == [][C15_FailStep]_vars

(* ------------------------------- C16 ----------------------------------- *)

\* C16: over any sequence of ticks, stops and restarts of the monitor, the
\* helper is started successfully at most once. (Not so: the flags are read
\* and written without a lock, and after a stop and a restart the tick of the
\* old goroutine and a tick of the new one can both pass the test of
\* autoPrintTriggered before either sets it.)
C16_AtMostOnce == launches <= 1

(* ------------------------------- C17 ----------------------------------- *)

\* the step is a StopFinePrintMonitor that succeeds
StopStep == finePrintCancel # 0 /\ StopFinePrintMonitor

\* the step completes a cleanup
CleanupStep == \E w \in Watchers : StepResume(w, TRUE)

\* cleanupCompleted and allowExit are never taken back
C17_NeverBack ==
    /\ cleanupCompleted => cleanupCompleted'
    /\ allowExit => allowExit'

PauseDone(name) ==
    PausePrinter(name) /\ TrimSpace(name) # "" /\ driver'.err = NoErr

C18_PauseStep ==
    \A name \in Names :
        PauseDone(name) => window'[TrimSpace(name)] = [start |-> 0, until |-> 2]

\* C18: a PausePrinter on a non-blank name sets the window of the printer to
\* start 0, end 2, whatever the offset of the local time zone. (Not so: the
\* window handed to Set-Printer is 0/2 only when the offset is zero.)
C18_PauseSetsSentinel == [][C18_PauseStep]_vars

(* ------------------------------- C19 ----------------------------------- *)

C19_StatusStep ==
    \A name \in Names :
        GetPrinterStatus(name) /\ driver'.err = NoErr =>
            LET win == window[driver'.target]
                status == driver'.status
            IN  /\ driver'.target = IF TrimSpace(name) = "" THEN defaultPrinterName
                                    ELSE TrimSpace(name)
                /\ status.StartTime = win.start
                /\ status.UntilTime = win.until
                /\ status.IsPaused <=> (win.start = 0 /\ win.until = 2)

C19_ResumeStep ==
    \A name \in Names :
        ResumePrinter(name) /\ TrimSpace(name) # "" /\ driver'.err = NoErr =>
            /\ window'[TrimSpace(name)] = [start |-> 0, until |-> 0]
            /\ ~StatusOf(window'[TrimSpace(name)]).IsPaused

\* C19: GetPrinterStatus reports isPaused = true exactly when the window of
\* the printer is start 0 and end 2, and false for every other pair; after a
\* successful ResumePrinter the window is 0/0 and its status is not paused.
C19_PausedIffSentinel == [][C19_StatusStep /\ C19_ResumeStep]_vars

\* a status was read as paused from a window of 0/2
C19_Witness ==
    /\ driver.op = "GetPrinterStatus" /\ driver.err = NoErr
    /\ driver.target = defaultPrinterName
    /\ driver.status.IsPaused
    /\ window[defaultPrinterName] = [start |-> 0, until |-> 2]

(* ------------------------------- C20 ----------------------------------- *)

C20_PauseStep ==
    \A name \in Names :
        PauseDone(name) =>
            LET win == window'[TrimSpace(name)]
            IN  /\ win.start \in 0..1439
                /\ win.until \in 0..1439
                /\ win.until = (win.start + 2) % 1440

\* C20: for every offset of the local time zone from -12h to +14h the start
\* and the end of the window PausePrinter computes lie in 0..1439, and the
\* end is 2 minutes after the start modulo 1440.
C20_WindowInRange == [][C20_PauseStep]_vars

\* a pause whose window wraps around midnight: one minute east of Greenwich
\* the window starts at 1439 and ends at 1
C20_Witness ==
    /\ offset = 60
    /\ driver.op = "PausePrinter" /\ driver.err = NoErr
    /\ window[defaultPrinterName] = [start |-> 1439, until |-> 1]

(* ------------------------------- C21 ----------------------------------- *)

\* the queues of distinct job ids
Queues ==
    {q \in UNION {[1..n -> JobIDs] : n \in 0..MaxJobs} :
        \A a, b \in DOMAIN q : a # b => q[a] # q[b]}

\* the jobs whose objects stand in the text, in the order of the text
JobsIn(text) ==
    LET objs == SelectSeq(text, LAMBDA x : x.t = "obj")
    IN  [k \in 1..Len(objs) |-> [ID |-> objs[k].id]]

\* what a GetPrinterJobs whose command ran returned, by the shape of the
\* trimmed output
C21_State ==
    jobsCall.op = "GetPrinterJobs" /\ jobsCall.result.err # MsgCommandFailed =>
        LET raw == TrimText(jobsCall.out)
            res == jobsCall.result
        IN  /\ raw \in {<<>>, <<Lex("null")>>, <<Lex("["), Lex("]")>>} =>
                  res.jobs = <<>> /\ ~res.isNil /\ res.err = NoErr
            /\ Len(raw) = 1 /\ raw[1].t = "obj" =>
                  res.jobs = <<[ID |-> raw[1].id]>> /\ ~res.isNil /\ res.err = NoErr
            /\ raw \in {JsonArray(q) : q \in Queues} =>
                  res.jobs = JobsIn(raw) /\ ~res.isNil /\ res.err = NoErr

\* a GetPrinterJobs whose script printed the queue returns the jobs of the
\* queue, oldest first
C21_Step ==
    /\ jobsCall' # jobsCall /\ jobsCall'.op = "GetPrinterJobs"
    /\ jobsCall'.result.err # MsgCommandFailed
    /\ jobsCall'.out \in Printed(spool)
    => /\ jobsCall'.result.err = NoErr /\ ~jobsCall'.result.isNil
       /\ jobsCall'.result.jobs = [k \in DOMAIN spool |-> [ID |-> spool[k]]]

\* C21: GetPrinterJobs normalises the output of the tool: empty output, null
\* and [] give an empty non-nil list and no error, a bare JSON object a list
\* of that one job, a JSON array one element per job in the same order.
C21_Normalised == []C21_State /\ [][C21_Step]_vars

\* an array of two jobs was decoded, the job with the higher id first
C21_Witness ==
    /\ jobsCall.op = "GetPrinterJobs"
    /\ jobsCall.result.err = NoErr
    /\ jobsCall.result.jobs = <<[ID |-> 2], [ID |-> 1]>>

(* ------------------------------- C22 ----------------------------------- *)

\* the ids of the first n jobs of the list
IdsOf(jobs, n) == [k \in 1..n |-> jobs[k].ID]

\* the loop has tried the jobs before the one it is at, and at its end it has
\* tried every job of the list, whatever failed
C22_State ==
    /\ rm.pc = "loop" => rm.i \in 1..Len(rm.jobs) /\ rm.tried = IdsOf(rm.jobs, rm.i - 1)
    /\ rm.pc = "done" /\ rm.err = NoErr =>
          rm.tried = IdsOf(rm.jobs, Len(rm.jobs)) /\ rm.removed <= Len(rm.jobs)

\* a removal that fails does not end the loop, and a removal of an id that is
\* not in the queue leaves the queue as it is
C22_Step ==
    /\ rm.pc = "loop" /\ rm' # rm
       => /\ rm'.removed = rm.removed /\ rm.i < Len(rm.jobs)
             => rm'.pc = "loop" /\ rm'.i = rm.i + 1 /\ spool' = spool
          /\ rm.jobs[rm.i].ID \notin InSpool
             => spool' = spool /\ rm'.removed = rm.removed
    /\ jobsCall' # jobsCall /\ jobsCall'.op = "RemovePrintJob" /\ jobsCall'.id \notin InSpool
       => spool' = spool

\* C22: in the cleanup a RemovePrintJob that fails for one id does not abort
\* the loop, every other listed id is still tried; and removing an id that is
\* not in the queue leaves the contents of the queue unchanged.
C22_LoopGoesOn == []C22_State /\ [][C22_Step]_vars

\* a cleanup of two listed jobs is over: both were tried, one removal failed,
\* and the job it was for is still in the queue
C22_Witness ==
    /\ rm.pc = "done" /\ rm.err = NoErr
    /\ Len(rm.jobs) = 2 /\ Len(rm.tried) = 2
    /\ rm.removed = 1
    /\ spool = <<rm.jobs[1].ID>>

(* ------------------------------- C23 ----------------------------------- *)

\* resolve or reject was called at most once on the promise of every call,
\* and exactly once on that of a call that is over
C23_State ==
    \A l \in DOMAIN load :
        /\ load[l].calls \in {<<>>, <<"resolved">>, <<MsgLoadTimeout>>, <<MsgNoEntryURL>>}
        /\ load[l].pc = "done" <=> load[l].calls # <<>>
        /\ load[l].pc = "waiting" => ~load[l].settled

\* nothing changes a call that is over: a load event or an expiry that comes
\* later is ignored
C23_Step ==
    \A l \in DOMAIN load : load[l].pc = "done" => load'[l] = load[l]

\* C23: each loadReportFrame call settles exactly once, resolved by the load
\* event or rejected by the timeout, never both; a load event or a timer
\* expiry after that is ignored.
C23_SettlesOnce ==
    /\ []C23_State
    /\ [][C23_Step]_vars
    /\ \A l \in Loads :
          (l \in DOMAIN load /\ load[l].pc = "waiting")
          ~> (l \in DOMAIN load /\ load[l].pc = "done")

\* the first call was resolved, the second one was rejected by its timer and
\* the page it asked for arrived after that
C23_Witness ==
    /\ Len(load) >= 2
    /\ load[1].calls = <<"resolved">>
    /\ load[2].calls = <<MsgLoadTimeout>>
    /\ frameSrc = 2 /\ frameDoc = 2

(* ------------------------------- C24 ----------------------------------- *)

\* a call that is over has no listener on the frame and no pending timer
C24_State ==
    \A l \in DOMAIN load : load[l].pc = "done" => l \notin listeners /\ l \notin timers

\* the timer of a waiting call expires: the call is rejected with the
\* timeout error and its listener, attached until then, is detached
C24_Step ==
    \A l \in DOMAIN load :
        load[l].pc = "waiting" /\ l \in timers /\ l \notin timers' /\ load'[l].pc = "done"
        /\ load'[l].calls # <<"resolved">>
        => /\ Promise(load'[l].calls) = MsgLoadTimeout
           /\ l \in listeners /\ l \notin listeners'

\* C24: on timeout the call is rejected with the timeout error and its load
\* listener is detached; after any call has settled neither its listener nor
\* its timer is still active.
C24_NothingLeft == []C24_State /\ [][C24_Step]_vars

\* the first call timed out while the second one still waits with its
\* listener and its timer
C24_Witness ==
    /\ Len(load) >= 2
    /\ Promise(load[1].calls) = MsgLoadTimeout
    /\ load[2].pc = "waiting"
    /\ listeners = {2} /\ timers = {2}

(* ------------------------------- C25 ----------------------------------- *)

\* a call is made with an empty entryUrl: it is over at once, rejected, and
\* the frame is as it was
C25_Step ==
    \A l \in Loads :
        l \notin DOMAIN load /\ l \in DOMAIN load' /\ load'[l].entryUrl = ""
        => /\ load'[l].pc = "done"
           /\ Promise(load'[l].calls) = MsgNoEntryURL
           /\ UNCHANGED <<frameSrc, frameDoc, listeners, timers>>

\* C25: loadReportFrame with an empty entry URL rejects immediately and
\* leaves the frame untouched: no listener attached, no timer started, no
\* change of the page the frame shows.
C25_EmptyURL == [][C25_Step]_vars

\* the second call had no entryUrl and was rejected while the first one
\* still waits for its page
C25_Witness ==
    /\ Len(load) >= 2
    /\ load[1].pc = "waiting" /\ frameSrc = 1
    /\ Promise(load[2].calls) = MsgNoEntryURL
    /\ listeners = {1} /\ timers = {1}

(* ------------------------------- C26 ----------------------------------- *)

\* the context of goroutine w is cancelled: w starts no evaluation and runs
\* no command
C26_Step ==
    \A w \in DOMAIN watch :
        watch[w].cancelled
        => /\ ~(watch[w].pc = "select" /\ watch'[w].pc = "proc")
           /\ Len(watch'[w].calls) <= Len(watch[w].calls)

\* C26: after StopFinePrintMonitor or shutdown has cancelled the watchdog, no
\* evaluation of the watchdog state starts and the watchdog issues no
\* further printer-queue command.
C26_StopsAtOnce == [][C26_Step]_vars

(* ------------------------------- C27 ----------------------------------- *)

\* the commands of a tick so far hold the two listings of the queue: that of
\* evaluateFinePrintState and, after it, that of removeAllPrinterJobs
RanCleanup(calls) ==
    \E i, j \in DOMAIN calls :
        i < j /\ calls[i] = "Get-PrintJob" /\ calls[j] = "Get-PrintJob"

\* the window was closed only with allowExit set
C27_State == closed => allowExit

\* OnBeforeClose with allowExit false leaves the window open and hidden;
\* allowExit is set only by the step of a tick that has removed the jobs of
\* the queue and whose ResumePrinter ran
C27_Step ==
    /\ OnBeforeClose /\ ~allowExit => ~closed' /\ ~isWindowVisible'
    /\ ~allowExit /\ allowExit'
       => \E w \in DOMAIN watch :
            /\ StepResume(w, TRUE)
            /\ RanCleanup(watch[w].calls)
            /\ window'[defaultPrinterName] = Unrestricted

\* C27: OnBeforeClose prevents the window from closing (hides it and returns
\* true) in every state where allowExit is false, and allowExit becomes true
\* only in a watchdog tick whose ResumePrinter succeeded after the queue
\* cleanup.
C27_NoExitBeforeCleanup == []C27_State /\ [][C27_Step]_vars

\* the window was shown, a tick of the watchdog cleaned up and asked to quit,
\* and OnBeforeClose let the window close
C27_Witness == closed /\ isWindowVisible /\ allowExit /\ cleanupCompleted /\ quit

(* ------------------------------- C30 ----------------------------------- *)

\* the step of w ran PausePrinter
PauseIssued(w) ==
    /\ watch'[w].calls # <<>>
    /\ watch'[w].calls[Len(watch'[w].calls)] = "Set-Printer pause"

\* ensurePrinterPaused of w: it pauses only a printer whose status says not
\* paused, and not one that holds the window of an earlier pause
C30_Step ==
    \A w \in DOMAIN watch :
        watch[w].pc = "ensure"
        => /\ PauseIssued(w) => ~StatusOf(window[defaultPrinterName]).IsPaused
           /\ window[defaultPrinterName] = PauseWindow(offset) => ~PauseIssued(w)

\* C30: ensurePrinterPaused issues PausePrinter only when GetPrinterStatus
\* reports isPaused = false; once a pause issued by the watchdog has succeeded
\* and nothing else changes the printer, every later tick finds the printer
\* paused and issues no further PausePrinter.
C30_PausesOnce == [][C30_Step]_vars

(* ------------------------------- C28 ----------------------------------- *)

\* the execution timed out, failed with an error or got a status outside 2xx
Failing(o) ==
    \/ o.kind \in {"timeout", "invalid", "failed", "unread"}
    \/ o.kind = "response" /\ ~(o.code >= 200 /\ o.code <= 299)

\* the execution got a 2xx response within the threshold of the task
WithinThreshold(o, timeoutMs) ==
    o.kind = "response" /\ o.code >= 200 /\ o.code <= 299 /\ o.duration <= timeoutMs

\* executeTask r is past its alert
Decided(r) == run[r].pc = "save"
Raised(r) == run[r].alert # "none"

Settled == sched.pc # "save" /\ \A r \in DOMAIN run : run[r].pc # "save"

C29_Mutation ==
    tasks' # tasks
    => \/ sched.pc = "idle" /\ sched'.pc = "save"
       \/ \E r \in DOMAIN run : run[r].pc = "status" /\ run'[r].pc = "save"

\* an operation gets past its SaveConfig only by calling it; a SaveConfig
\* that succeeds leaves the task list of the memory in the file, and nothing
\* else writes the file
C29_Save ==
    /\ \A r \in DOMAIN run :
          run[r].pc = "save" /\ run'[r].pc # "save"
          => \E ok \in BOOLEAN : ExecuteTaskSave(r, ok)
    /\ sched.pc = "save" /\ sched'.pc # "save"
       => \E ok, scheduled \in BOOLEAN : SchedulerSave(ok, scheduled)
    /\ \/ \E r \in DOMAIN run : ExecuteTaskSave(r, TRUE)
       \/ \E scheduled \in BOOLEAN : SchedulerSave(TRUE, scheduled)
       => file' = tasks'
    /\ file' # file => file' = tasks'

HolderGoesOn == ENABLED (\E ok, scheduled \in BOOLEAN : SchedulerSave(ok, scheduled))

\* C31: every call of Reload, RemoveTask and UpdateTask returns and releases
\* Scheduler.mu: a call that holds the lock is never left without a step to
\* its return, so the operations that wait for the lock can proceed.
C31_LockReleased == sched.pc # "idle" => HolderGoesOn

(* ------------------------------- C32 ----------------------------------- *)

\* the results sent or about to be sent on the channel of call c: those being
\* sent, the one in the buffer and the one Print received
SentOn(c) == Cardinality(Sending(c)) + Len(chan[c]) + (IF ret[c].hasResult THEN 1 ELSE 0)

\* C32: NotifyResult never blocks: a NotifyResult that is at its send can
\* always complete it, and at most one result is ever sent on the channel of
\* a request, also when the Print call has returned on its timeout.
C32_NeverBlocks ==
    /\ \A n \in Notes : note[n].pc = "send" => ENABLED NotifySend(n)
    /\ \A c \in Calls : SentOn(c) <= 1

\* a Print call has returned its timeout error, and the result of a
\* notification that found its channel before the untrack is in the buffer
C32_Witness ==
    \E c \in Calls :
        /\ pc[c] = "done" /\ ret[c].err = ErrTimeout /\ ~ret[c].hasResult
        /\ Len(chan[c]) = 1 /\ Sending(c) = {}

(* ------------------------------- C33 ----------------------------------- *)

\* the tick of w lists the queue in removeAllPrinterJobs, finds jobs, and a
\* job is still there when its removals are over: a removal failed
RemovalFailed(w) ==
    /\ w \in DOMAIN watch /\ watch[w].pc = "remove" /\ watch'[w].pc # "remove"
    /\ Len(watch'[w].calls) > Len(watch[w].calls)
    /\ queue /\ queue'

\* C33: the watchdog resumes the printer only when every job it listed in
\* the tick was removed: a tick in which a removal failed and left the job
\* in the queue does not go on to issue ResumePrinter.
C33_Step == \A w \in Watchers : RemovalFailed(w) => watch'[w].pc # "resume"

C33_ResumeOnlyWhenRemoved == [][C33_Step]_vars

(* ------------------------------- C34 ----------------------------------- *)

\* the tick of w has removed the jobs and is about to call ResumePrinter
AboutToResume(w) == w \in DOMAIN watch /\ watch[w].pc = "resume" /\ ~queue

\* C34: when the cleanup tick has removed the jobs, the printer is resumed in
\* the end, by that tick or, if its ResumePrinter fails, by a later tick that
\* tries again, also when no further job enters the queue (unless the loop
\* is stopped in between).
C34_ResumeRetried ==
    \A w \in Watchers :
        AboutToResume(w)
        ~> \/ window[defaultPrinterName] = Unrestricted
           \/ queue
           \/ w \in DOMAIN watch /\ watch[w].cancelled

(* ------------------------------- C35 ----------------------------------- *)

\* the longest the page script takes by its own timeouts: the load of the
\* frame, the wait for FR, and one poll interval
PageWorstCase(cfg) == cfg.FrameLoadTimeout + cfg.ReadyTimeout + cfg.ReadyInterval

\* C35: with the default configuration, a notification the page script
\* makes within the frame-load timeout plus the ready timeout plus one poll
\* interval after it was triggered is received by the waiting Print call: the
\* result timeout has not fired before it.
C35_ResultTimeoutCovers ==
    /\ timing.pc = "done" /\ timing.cfg = NewService(ZeroConfig)
    /\ timing.now <= PageWorstCase(timing.cfg)
    => timing.outcome = "received"

(* ------------------------------- C36 ----------------------------------- *)

\* the printer is paused by the watchdog, whose loop is live
PausedByWatchdog ==
    /\ finePrintActive /\ finePrintCancel # 0
    /\ window[defaultPrinterName] # Unrestricted

\* C36: when StopFinePrintMonitor is called while the watchdog has the
\* printer paused (finePrintActive true), the printer is not left paused for
\* good: from a state in which the watchdog has it paused, either the monitor
\* is never stopped, or the printer is resumed in the end, by the stop or by
\* a tick after the monitor was started again, or the monitor is never
\* started again.
C36_NotLeftPaused ==
    [](PausedByWatchdog
         => \/ [](finePrintCancel # 0)
            \/ <>(window[defaultPrinterName] = Unrestricted)
            \/ <>[](finePrintCancel = 0))

(* ------------------------------- C37 ----------------------------------- *)

\* the goroutines that are inside evaluateFinePrintState
Evaluating == {w \in DOMAIN watch : watch[w].pc \notin {"select", "exited"}}

\* while an evaluation is in progress the flags of the watchdog are written
\* by a step of an evaluation only, not by a call of the UI
C37_Step ==
    Evaluating # {} /\ Flags' # Flags => finePrintCancel' = finePrintCancel

\* C37: at most one evaluation of the watchdog state runs at any time, also
\* across StopFinePrintMonitor followed by StartFinePrintMonitor, and no
\* other goroutine writes the flags of the watchdog while an evaluation is in
\* progress.
C37_OneEvaluation == [](Cardinality(Evaluating) <= 1) /\ [][C37_Step]_vars

(* ------------------------------- C38 ----------------------------------- *)

\* the loops that are live: started, not ended and not told to end
LiveLoops == {w \in DOMAIN watch : watch[w].pc # "exited" /\ ~watch[w].cancelled}

\* C38: IsFinePrintMonitorRunning returns true exactly when a loop of the
\* watchdog is live; after the cleanup has cancelled the loop it returns
\* false, and StartFinePrintMonitor, which is refused when it returns true,
\* is refused only while a loop is live.
C38_RunningIffLive == IsFinePrintMonitorRunning <=> LiveLoops # {}


(* -------------------------------- C39 ---------------------------------- *)

\* C39 as stated: cleanup is completed only after the helper was launched.
C39_CleanupAfterLaunch == cleanupCompleted => autoPrintTriggered

\* the step that completes the cleanup
CleanupCompletes == ~cleanupCompleted /\ cleanupCompleted'

\* C39, amended: the watchdog reaches cleanup-completed and requests
\* application exit only in a tick that found a job in the queue and resumed
\* the printer; the helper has been launched in that run exactly when
\* autoPrintTriggered holds, and it has not when the job was in the queue
\* before a launch succeeded.
C39_Step ==
    CleanupCompletes =>
        /\ window'[defaultPrinterName] = Unrestricted
        /\ allowExit' /\ (ctx => quit')
        /\ \E w \in Watchers :
              /\ StepResume(w, TRUE)
              /\ Len(SelectSeq(watch[w].calls, LAMBDA call : call = "Get-PrintJob")) = 2

C39_CleanupAfterJob ==
    /\ [](autoPrintTriggered <=> launches > 0)
    /\ [](cleanupCompleted => allowExit)
    /\ [][C39_Step]_vars

\* the cleanup completed although no helper was ever launched
C39_Witness ==
    cleanupCompleted /\ allowExit /\ quit /\ ~autoPrintTriggered /\ launches = 0 /\ ~queue


(* -------------------------------- C40 ---------------------------------- *)

\* the execution r records its status in this step
StatusRecorded(r) == r \in DOMAIN run /\ run[r].pc = "status" /\ run'[r].pc = "save"

\* the bookkeeping of task describes an execution with the result
Describes(task, result) ==
    /\ task.LastStatus = StatusFor(result)
    /\ task.LastError = result.ErrorMessage
    /\ task.LastExecuted # ""

\* C40: after an execution of a task of the list, lastStatus, lastError and
\* lastExecuted of the task describe that execution: the status and the error
\* are those of its result (no error after a success) and lastExecuted is set.
C40_Step ==
    \A r \in 1..MaxRuns : StatusRecorded(r) =>
        LET i == First(tasks, run[r].name)
        IN  i # 0 => Describes(tasks'[i], Execute(run[r].outcome))

C40_BookkeepingDescribesRun == [][C40_Step]_vars

====
